---------------------------- MODULE Spec2Model ----------------------------
(***************************************************************************)
(* Player controller and static collision of py-3d-world                   *)
(* (engine/physics.py, engine/collision.py, engine/camera.py).             *)
(*                                                                         *)
(* Numbers are fixed point.  A length is an integer number of 1/100000     *)
(* world units, a speed an integer number of 1/1000 units per second and a *)
(* time an integer number of 1/100 second, so that speed * time is a       *)
(* length without rounding.  Vectors are triples <<x, y, z>>; index 2 is   *)
(* the vertical axis (index 1 of the numpy arrays).                        *)
(***************************************************************************)
EXTENDS Integers, Sequences, FiniteSets, TLC

\* ------------------------------------------------------------ units
\* One world unit, one unit per second and one second, in model integers.
PU == 100 * 1000
VU == 10 * 100
TU == 10 * 10

Abs(a) == IF a < 0 THEN -a ELSE a
Min(a, b) == IF a < b THEN a ELSE b
Max(a, b) == IF a > b THEN a ELSE b
\* Division rounding toward zero (the fixed-point stand-in for a float quotient).
QuoT(a, b) == IF a >= 0 THEN a \div b ELSE -((-a) \div b)

RECURSIVE SqrtIter(_, _)
SqrtIter(n, g) ==
    LET h == (g + n \div g) \div 2
    IN  IF h >= g THEN g ELSE SqrtIter(n, h)
\* Integer square root (floor), by Newton's iteration.
ISqrt(n) == IF n <= 0 THEN 0 ELSE SqrtIter(n, n)

\* Lengths above FineLimit are measured in 1/1000 units so that squares fit.
FineLimit == 3 * (PU \div 10)
NormScale(dx, dz) == IF Max(Abs(dx), Abs(dz)) <= FineLimit THEN 1 ELSE 100
\* np.linalg.norm of the horizontal vector (dx, 0, dz), in units of NormScale.
HNorm(dx, dz) ==
    LET k == NormScale(dx, dz)
        a == QuoT(dx, k)
        b == QuoT(dz, k)
    IN  ISqrt(a * a + b * b)
\* (dx, 0, dz) / norm * len: the horizontal vector scaled to length len.
HScaled(dx, dz, len) ==
    LET k == NormScale(dx, dz)
        n == HNorm(dx, dz)
    IN  <<QuoT(QuoT(dx, k) * len, n), 0, QuoT(QuoT(dz, k) * len, n)>>

\* ------------------------------------------------------------ world
\* A world object: kind, centre position and size (width, height, depth).
Plane(p) == [kind |-> "Plane", position |-> p, size |-> <<150 * PU, 0, 150 * PU>>]
Cube(p, s) == [kind |-> "Cube", position |-> p, size |-> s]

player_radius == PU \div 2
player_height == (17 * PU) \div 10
ground_collision_threshold == (5 * PU) \div 100
\* 0.1: the band around a top that counts as a landing, and the push-out step.
landing_band == PU \div 10
push_out == PU \div 10
\* 0.2: the band in which the previous standing object is kept.
hysteresis_band == (2 * PU) \div 10

NoObject == 0

cube_min(cube) ==
    <<cube.position[1] - cube.size[1] \div 2 - player_radius,
      cube.position[2] - cube.size[2] \div 2,
      cube.position[3] - cube.size[3] \div 2 - player_radius>>
cube_max(cube) ==
    <<cube.position[1] + cube.size[1] \div 2 + player_radius,
      cube.position[2] + cube.size[2] \div 2,
      cube.position[3] + cube.size[3] \div 2 + player_radius>>
cube_top(cube) == cube.position[2] + cube.size[2] \div 2

horizontal_collision(cube, p) ==
    /\ p[1] >= cube_min(cube)[1] /\ p[1] <= cube_max(cube)[1]
    /\ p[3] >= cube_min(cube)[3] /\ p[3] <= cube_max(cube)[3]

landing_on_top(cube, p) ==
    LET player_feet == p[2] - player_height
    IN  /\ player_feet <= cube_max(cube)[2] + landing_band
        /\ player_feet >= cube_max(cube)[2] - landing_band

check_cube_collision(cube, new_position) ==
    LET player_feet == new_position[2] - player_height
        player_head == new_position[2]
        lo == cube_min(cube)[2]
        hi == cube_max(cube)[2]
        vertical_collision ==
            \/ (player_feet <= hi /\ player_feet >= lo)
            \/ (player_head <= hi /\ player_head >= lo)
            \/ (player_feet <= lo /\ player_head >= hi)
    IN  /\ horizontal_collision(cube, new_position)
        /\ (vertical_collision \/ landing_on_top(cube, new_position))

\* The push with the direction taken from the player to the centre.
push_toward(cube, position) ==
    LET dx == cube.position[1] - position[1]
        dz == cube.position[3] - position[3]
        d == IF HNorm(dx, dz) > 0 THEN HScaled(dx, dz, push_out)
             ELSE <<push_out, 0, 0>>
    IN  <<position[1] + d[1], position[2], position[3] + d[3]>>

\* Lines 248-260.
push_away(cube, position) ==
    LET dx == position[1] - cube.position[1]
        dz == position[3] - cube.position[3]
        d == IF HNorm(dx, dz) > 0 THEN HScaled(dx, dz, push_out)
             ELSE <<push_out, 0, 0>>
    IN  <<position[1] + d[1], position[2], position[3] + d[3]>>

\* No sliding: every blocked move keeps the previous position.
slide_full_stop(cube, position, new_position) == position

\* Lines 294-313.
slide(cube, position, new_position) ==
    LET x_only == <<new_position[1], position[2], position[3]>>
        z_only == <<position[1], position[2], new_position[3]>>
    IN  IF ~check_cube_collision(cube, x_only) THEN x_only
        ELSE IF ~check_cube_collision(cube, z_only) THEN z_only
        ELSE position

resolve_cube_collision(cube, position, new_position) ==
    IF check_cube_collision(cube, position) THEN push_away(cube, position)
    ELSE IF horizontal_collision(cube, new_position) /\ landing_on_top(cube, new_position)
         THEN <<new_position[1], cube_max(cube)[2] + player_height, new_position[3]>>
    ELSE slide(cube, position, new_position)

resolve_object_collision(obj, position, new_position) ==
    IF obj.kind \in {"Cube", "InteractiveCube"}
    THEN resolve_cube_collision(obj, position, new_position)
    ELSE new_position

\* A prism: a square base of side s with its centre at p, and height h above
\* p (size holds width, height, depth as for a box).
Triangle(p, s, h) == [kind |-> "Triangle", position |-> p, size |-> <<s, h, s>>]

\* The prism's bounding box, expanded by the player radius (lines 457-473).
triangle_min(triangle) ==
    <<triangle.position[1] - triangle.size[1] \div 2 - player_radius,
      triangle.position[2],
      triangle.position[3] - triangle.size[1] \div 2 - player_radius>>
triangle_max(triangle) ==
    <<triangle.position[1] + triangle.size[1] \div 2 + player_radius,
      triangle.position[2] + triangle.size[2],
      triangle.position[3] + triangle.size[1] \div 2 + player_radius>>

triangle_footprint(triangle, p) ==
    /\ p[1] >= triangle_min(triangle)[1] /\ p[1] <= triangle_max(triangle)[1]
    /\ p[3] >= triangle_min(triangle)[3] /\ p[3] <= triangle_max(triangle)[3]

\* The square base itself, as lines 534-545 take it (no player radius).
triangle_base(triangle, p) ==
    /\ p[1] >= triangle.position[1] - triangle.size[1] \div 2
    /\ p[1] <= triangle.position[1] + triangle.size[1] \div 2
    /\ p[3] >= triangle.position[3] - triangle.size[1] \div 2
    /\ p[3] <= triangle.position[3] + triangle.size[1] \div 2

triangle_landing(triangle, p) ==
    /\ p[2] - player_height <= triangle_max(triangle)[2] + landing_band
    /\ p[2] - player_height >= triangle_max(triangle)[2] - landing_band

\* CollisionDetector._check_triangle_collision.
check_triangle_collision(triangle, new_position) ==
    LET player_feet == new_position[2] - player_height
        player_head == new_position[2]
        lo == triangle_min(triangle)[2]
        hi == triangle_max(triangle)[2]
        vertical_collision ==
            /\ \/ (player_feet <= hi /\ player_feet >= lo)
               \/ (player_head <= hi /\ player_head >= lo)
               \/ (player_feet <= lo /\ player_head >= hi)
            /\ ~(player_feet > triangle.position[2] + triangle.size[2])
    IN  /\ triangle_footprint(triangle, new_position)
        /\ (vertical_collision \/ triangle_landing(triangle, new_position))

\* Lines 561-575: the player is put on the line from the prism's centre to the
\* desired position, at size/2 + radius + 0.1 from the centre.
side_push(triangle, new_position) ==
    LET dx == new_position[1] - triangle.position[1]
        dz == new_position[3] - triangle.position[3]
        k == NormScale(dx, dz)
        n == HNorm(dx, dz)
        len == (triangle.size[1] \div 2 + player_radius + push_out) \div (100 * 100)
    IN  IF n > 0
        THEN <<triangle.position[1] + QuoT(QuoT(dx, k) * 100 * 100, n) * len,
               new_position[2],
               triangle.position[3] + QuoT(QuoT(dz, k) * 100 * 100, n) * len>>
        ELSE new_position

\* CollisionDetector._resolve_triangle_collision.
resolve_triangle_collision(triangle, position, new_position) ==
    IF check_triangle_collision(triangle, position) THEN push_away(triangle, position)
    ELSE IF triangle_landing(triangle, new_position)
            /\ triangle_base(triangle, new_position)
    THEN <<new_position[1], triangle_max(triangle)[2] + player_height, new_position[3]>>
    ELSE IF /\ new_position[2] - player_height <= triangle_max(triangle)[2]
            /\ new_position[2] >= triangle_min(triangle)[2]
            /\ triangle_base(triangle, new_position)
    THEN side_push(triangle, new_position)
    ELSE new_position

\* The loop of lines 38-90 without the ground clamp of lines 74-90.
collision_step_no_ground_clamp(objects, i, position, new_position, r) ==
    LET obj == objects[i]
    IN  IF obj.kind \in {"Cube", "InteractiveCube"}
        THEN IF check_cube_collision(obj, r.pos)
             THEN LET adj == resolve_object_collision(obj, position, r.pos)
                  IN  IF adj[2] > new_position[2]
                      THEN [pos |-> adj, so |-> i, sh |-> cube_top(obj), ogl |-> TRUE]
                      ELSE [r EXCEPT !.pos = adj]
             ELSE r
        ELSE IF obj.kind \in {"Triangle", "InteractiveTriangle"}
        THEN IF check_triangle_collision(obj, r.pos)
             THEN LET adj == resolve_triangle_collision(obj, position, r.pos)
                  IN  IF adj[2] > new_position[2]
                      THEN [pos |-> adj, so |-> i,
                            sh |-> obj.position[2] + obj.size[2], ogl |-> TRUE]
                      ELSE [r EXCEPT !.pos = adj]
             ELSE r
        ELSE r

\* One iteration of check_collision's loop: object i against the position
\* adjusted so far (r.pos); new_position is the position asked for.
collision_step(objects, i, position, new_position, r) ==
    LET obj == objects[i]
    IN  IF obj.kind \in {"Cube", "InteractiveCube"}
        THEN IF check_cube_collision(obj, r.pos)
             THEN LET adj == resolve_object_collision(obj, position, r.pos)
                  IN  IF adj[2] > new_position[2]
                      THEN [pos |-> adj, so |-> i, sh |-> cube_top(obj), ogl |-> TRUE]
                      ELSE [r EXCEPT !.pos = adj]
             ELSE r
        ELSE IF obj.kind \in {"Triangle", "InteractiveTriangle"}
        THEN IF check_triangle_collision(obj, r.pos)
             THEN LET adj == resolve_triangle_collision(obj, position, r.pos)
                  IN  IF adj[2] > new_position[2]
                      THEN [pos |-> adj, so |-> i,
                            sh |-> obj.position[2] + obj.size[2], ogl |-> TRUE]
                      ELSE [r EXCEPT !.pos = adj]
             ELSE r
        ELSE IF obj.kind = "Plane"
        THEN IF /\ obj.position[2] = 0
                /\ r.pos[2] < player_height
                /\ player_height - r.pos[2] > ground_collision_threshold
             THEN [pos |-> <<r.pos[1], player_height, r.pos[3]>>,
                   so |-> i, sh |-> 0, ogl |-> TRUE]
             ELSE r
        ELSE r

RECURSIVE collision_loop(_, _, _, _, _)
collision_loop(objects, i, position, new_position, r) ==
    IF i > Len(objects) THEN r
    ELSE collision_loop(objects, i + 1, position, new_position,
                        collision_step(objects, i, position, new_position, r))

\* No hysteresis: lines 92-106 left out.
platform_hysteresis_off(det, r) == r

\* Keep the previous standing object while the feet stay within 0.2 of it.
platform_hysteresis(det, r) ==
    IF det.so # NoObject /\ r.so = NoObject
       /\ Abs((r.pos[2] - player_height) - det.sh) < hysteresis_band
    THEN [pos |-> <<r.pos[1], det.sh + player_height, r.pos[3]>>,
          so |-> det.so, sh |-> det.sh, ogl |-> TRUE]
    ELSE r

airborne_detection(r) ==
    IF r.pos[2] > player_height + landing_band /\ r.so = NoObject
    THEN [r EXCEPT !.ogl = FALSE]
    ELSE r

\* CollisionDetector.check_collision: the adjusted position and the detector
\* state (so: _standing_on_object, sh: _standing_height, ogl:
\* _on_ground_last_check) after the call.
check_collision(det, objects, position, new_position) ==
    IF position = new_position
    THEN [pos |-> new_position, so |-> det.so, sh |-> det.sh, ogl |-> det.ogl]
    ELSE airborne_detection(
           platform_hysteresis(det,
             collision_loop(objects, 1, position, new_position,
                            [pos |-> new_position, so |-> NoObject, sh |-> 0,
                             ogl |-> det.ogl])))

check_standing_on_object(obj, position) ==
    /\ obj.kind \in {"Cube", "InteractiveCube"}
    /\ horizontal_collision(obj, position)
    /\ Abs((position[2] - player_height) - cube_top(obj)) < ground_collision_threshold * 4

\* The first object, in world order, that check_ground accepts (0: none).
RECURSIVE ground_object(_, _, _)
ground_object(objects, i, position) ==
    IF i > Len(objects) THEN NoObject
    ELSE IF \/ /\ objects[i].kind = "Plane"
               /\ objects[i].position[2] = 0
               /\ Abs(position[2] - player_height) < ground_collision_threshold
            \/ check_standing_on_object(objects[i], position)
         THEN i
         ELSE ground_object(objects, i + 1, position)

\* CollisionDetector.check_ground: the result and the detector state after it.
check_ground(det, objects, position) ==
    LET i == ground_object(objects, 1, position)
    IN  IF i = NoObject
        THEN [hit |-> FALSE, so |-> det.so, sh |-> det.sh, ogl |-> FALSE]
        ELSE IF objects[i].kind = "Plane"
        THEN [hit |-> TRUE, so |-> i, sh |-> 0, ogl |-> det.ogl]
        ELSE [hit |-> TRUE, so |-> i, sh |-> cube_top(objects[i]), ogl |-> TRUE]

\* ------------------------------------------------------------ physics
gravity == (98 * VU) \div 10
jump_force == 5 * VU
terminal_velocity == 20 * VU
\* The default eye height taken for that of standing on the platform.
default_eye_height_raised == (27 * PU) \div 10
default_eye_height == (17 * PU) \div 10
max_air_time == 2 * TU
\* 0.5 s: the minimum time in the air before a landing is accepted.
min_air_time == TU \div 2
jump_cooldown_start == (3 * TU) \div 10
max_dt == TU \div 10
\* movement_smoothing = 0.8, in tenths.
movement_smoothing == 8
None == <<>>

\* Lines 77-79: the landing state is reset at the start of every tick.
reset_landing(e) ==
    [e EXCEPT !.just_landed = FALSE, !.landing_position = None,
              !.events = {}, !.jumped = FALSE]

\* Lines 90-95.  since_update is current_time - self.last_update, read after
\* line 72 has stored current_time in last_update.
warm_up(e, since_update) ==
    IF e.force_on_ground
    THEN [e EXCEPT !.on_ground = TRUE,
                   !.force_on_ground = ~(since_update > TU)]
    ELSE e

\* No watchdog: lines 97-104 left out.
airtime_watchdog_off(e, time_since_jump) == e

\* Lines 97-104.
airtime_watchdog(e, time_since_jump) ==
    IF e.jumping /\ time_since_jump > max_air_time
    THEN [e EXCEPT !.jumping = FALSE, !.on_ground = TRUE,
                   !.velocity = <<e.velocity[1], 0, e.velocity[3]>>,
                   !.jump_cooldown = 0,
                   !.events = e.events \cup {"watchdog"}]
    ELSE e

\* Lines 106-115.
eye_level_snap(e, time_since_jump, position) ==
    IF /\ e.jumping
       /\ Abs(position[2] - default_eye_height) < PU \div 10
       /\ time_since_jump > min_air_time
    THEN [e EXCEPT !.jumping = FALSE, !.on_ground = TRUE,
                   !.velocity = <<e.velocity[1], 0, e.velocity[3]>>,
                   !.jump_cooldown = 0,
                   !.just_landed = TRUE, !.landing_position = position,
                   !.events = e.events \cup {"eye_snap"}]
    ELSE e

\* Lines 117-145.
ground_sensing(e, objects, position) ==
    IF e.jumping THEN [e EXCEPT !.on_ground = FALSE]
    ELSE IF Abs(position[2] - default_eye_height) < PU \div 10
    THEN [e EXCEPT !.on_ground = TRUE, !.standing_on_platform = FALSE,
                   !.platform_height = 0]
    ELSE LET g == check_ground(e.det, objects, position)
             on_platform == g.so # NoObject
         IN  [e EXCEPT !.on_ground = g.hit,
                       !.det = [so |-> g.so, sh |-> g.sh, ogl |-> g.ogl],
                       !.standing_on_platform = on_platform,
                       !.last_platform_height =
                           IF on_platform THEN e.platform_height
                           ELSE e.last_platform_height,
                       !.platform_height =
                           IF on_platform THEN g.sh ELSE e.platform_height]

\* The landing edge of line 149 without "and was_jumping".
landing_edge_filter_any_fall(e, was_on_ground, was_jumping, time_since_jump, position) ==
    IF ~was_on_ground /\ e.on_ground
    THEN IF time_since_jump > min_air_time /\ e.velocity[2] <= 0
         THEN [e EXCEPT !.jumping = FALSE, !.jump_cooldown = 0,
                        !.just_landed = TRUE, !.landing_position = position,
                        !.events = e.events \cup {"landed"}]
         ELSE [e EXCEPT !.on_ground = FALSE,
                        !.events = e.events \cup {"landing_rejected"}]
    ELSE e

\* Lines 147-162.
landing_edge_filter(e, was_on_ground, was_jumping, time_since_jump, position) ==
    IF ~was_on_ground /\ e.on_ground /\ was_jumping
    THEN IF time_since_jump > min_air_time /\ e.velocity[2] <= 0
         THEN [e EXCEPT !.jumping = FALSE, !.jump_cooldown = 0,
                        !.just_landed = TRUE, !.landing_position = position,
                        !.events = e.events \cup {"landed"}]
         ELSE [e EXCEPT !.on_ground = FALSE,
                        !.events = e.events \cup {"landing_rejected"}]
    ELSE e

\* The jump step without line 185: on_ground is left as it was.
jump_initiation_grounded(e, jump_requested) ==
    IF jump_requested /\ e.on_ground /\ e.jump_cooldown <= 0
    THEN [e EXCEPT !.velocity = <<e.velocity[1], jump_force, e.velocity[3]>>,
                   !.jumping = TRUE,
                   !.jump_cooldown = jump_cooldown_start,
                   !.jumped = TRUE,
                   !.events = e.events \cup {"jump"}]
    ELSE e

\* The jump step taken on every request, whatever on_ground and the cooldown.
jump_initiation_unguarded(e, jump_requested) ==
    IF jump_requested
    THEN [e EXCEPT !.velocity = <<e.velocity[1], jump_force, e.velocity[3]>>,
                   !.jumping = TRUE, !.on_ground = FALSE,
                   !.jump_cooldown = jump_cooldown_start,
                   !.jumped = TRUE,
                   !.events = e.events \cup {"jump"}]
    ELSE e

\* Lines 181-199.
jump_initiation(e, jump_requested) ==
    IF jump_requested /\ e.on_ground /\ e.jump_cooldown <= 0
    THEN [e EXCEPT !.velocity = <<e.velocity[1], jump_force, e.velocity[3]>>,
                   !.jumping = TRUE, !.on_ground = FALSE,
                   !.jump_cooldown = jump_cooldown_start,
                   !.jumped = TRUE,
                   !.events = e.events \cup {"jump"}]
    ELSE IF jump_requested /\ e.jump_cooldown > 0
    THEN [e EXCEPT !.events = e.events \cup {"on_cooldown"}]
    ELSE IF jump_requested /\ ~e.on_ground
    THEN [e EXCEPT !.events = e.events \cup {"not_on_ground"}]
    ELSE e

\* Lines 201-203.
cooldown_decay(e, dt) ==
    IF e.jump_cooldown > 0
    THEN [e EXCEPT !.jump_cooldown = e.jump_cooldown - dt]
    ELSE e

\* Lines 205-207: v * smoothing + intent * (1 - smoothing).
smooth(v, intent) ==
    QuoT(v * movement_smoothing + intent * (10 - movement_smoothing), 10)
horizontal_integration(e, movement_dir) ==
    [e EXCEPT !.velocity = <<smooth(e.velocity[1], movement_dir[1]),
                             e.velocity[2],
                             smooth(e.velocity[3], movement_dir[3])>>]

\* Gravity without the cap of lines 216-217.
vertical_integration_uncapped(e, dt) ==
    IF ~e.on_ground \/ e.jumping
    THEN [e EXCEPT !.velocity = <<e.velocity[1],
                                  e.velocity[2] - (gravity * dt) \div TU,
                                  e.velocity[3]>>,
                   !.events = e.events \cup {"gravity"}]
    ELSE [e EXCEPT !.velocity = <<e.velocity[1], 0, e.velocity[3]>>]

\* Gravity held back in the tick that starts a jump.
vertical_integration_after_jump_tick(e, dt) ==
    IF e.jumped THEN e
    ELSE IF ~e.on_ground \/ e.jumping
    THEN LET vy == e.velocity[2] - (gravity * dt) \div TU
         IN  [e EXCEPT !.velocity =
                           <<e.velocity[1],
                             IF vy < -terminal_velocity THEN -terminal_velocity ELSE vy,
                             e.velocity[3]>>,
                       !.events = e.events \cup {"gravity"}]
    ELSE [e EXCEPT !.velocity = <<e.velocity[1], 0, e.velocity[3]>>]

\* The cap of lines 216-217 applied before the gravity of line 213.
vertical_integration_cap_first(e, dt) ==
    IF ~e.on_ground \/ e.jumping
    THEN LET vy == IF e.velocity[2] < -terminal_velocity
                   THEN -terminal_velocity ELSE e.velocity[2]
         IN  [e EXCEPT !.velocity = <<e.velocity[1],
                                      vy - (gravity * dt) \div TU,
                                      e.velocity[3]>>,
                       !.events = e.events \cup {"gravity"}]
    ELSE [e EXCEPT !.velocity = <<e.velocity[1], 0, e.velocity[3]>>]

\* Lines 209-225.
vertical_integration(e, dt) ==
    IF ~e.on_ground \/ e.jumping
    THEN LET vy == e.velocity[2] - (gravity * dt) \div TU
         IN  [e EXCEPT !.velocity =
                           <<e.velocity[1],
                             IF vy < -terminal_velocity THEN -terminal_velocity ELSE vy,
                             e.velocity[3]>>,
                       !.events = e.events \cup {"gravity"}]
    ELSE [e EXCEPT !.velocity = <<e.velocity[1], 0, e.velocity[3]>>]

\* Lines 227-231: position + velocity * dt.
integrate_position(position, velocity, dt) ==
    [i \in 1..3 |-> position[i] + velocity[i] * dt * (PU \div (VU * TU))]

\* Lines 239-260, after check_collision returned adjusted_position.
velocity_zeroing(e, new_position, adjusted_position, time_since_jump) ==
    IF new_position = adjusted_position THEN e
    ELSE LET v == [i \in 1..3 |->
                      IF new_position[i] # adjusted_position[i] THEN 0
                      ELSE e.velocity[i]]
             z == [e EXCEPT !.velocity = v]
         IN  IF /\ adjusted_position[2] # new_position[2]
                /\ new_position[2] < adjusted_position[2]
                /\ v[2] < 0
                /\ time_since_jump > min_air_time
             THEN [z EXCEPT !.on_ground = TRUE, !.jumping = FALSE,
                            !.jump_cooldown = 0, !.just_landed = TRUE,
                            !.landing_position = adjusted_position,
                            !.events = e.events \cup {"collision_landing"}]
             ELSE z

\* Lines 262-268.
minimum_airtime(e, time_since_jump) ==
    IF time_since_jump < min_air_time /\ e.jumping
    THEN [e EXCEPT !.on_ground = FALSE]
    ELSE e

\* Lines 270-276.
high_altitude_correction(e, position) ==
    IF /\ position[2] > default_eye_height + PU \div 2
       /\ ~e.standing_on_platform
       /\ e.on_ground
    THEN [e EXCEPT !.on_ground = FALSE]
    ELSE e

\* The ground-level landing without line 280: jumping is left set.
ground_level_landing_keeps_jumping(e, adjusted_position, time_since_jump) ==
    IF /\ Abs(adjusted_position[2] - default_eye_height) < (5 * PU) \div 100
       /\ time_since_jump > min_air_time
       /\ e.jumping
    THEN [e EXCEPT !.on_ground = TRUE,
                   !.velocity = <<e.velocity[1], 0, e.velocity[3]>>,
                   !.jump_cooldown = 0,
                   !.events = e.events \cup {"ground_landing"}]
    ELSE e

\* The ground-level landing without line 282: the velocity is left as it was.
ground_level_landing_keeps_velocity(e, adjusted_position, time_since_jump) ==
    IF /\ Abs(adjusted_position[2] - default_eye_height) < (5 * PU) \div 100
       /\ time_since_jump > min_air_time
       /\ e.jumping
    THEN [e EXCEPT !.jumping = FALSE, !.on_ground = TRUE,
                   !.jump_cooldown = 0,
                   !.events = e.events \cup {"ground_landing"}]
    ELSE e

\* Lines 278-286.
ground_level_landing(e, adjusted_position, time_since_jump) ==
    IF /\ Abs(adjusted_position[2] - default_eye_height) < (5 * PU) \div 100
       /\ time_since_jump > min_air_time
       /\ e.jumping
    THEN [e EXCEPT !.jumping = FALSE, !.on_ground = TRUE,
                   !.velocity = <<e.velocity[1], 0, e.velocity[3]>>,
                   !.jump_cooldown = 0,
                   !.events = e.events \cup {"ground_landing"}]
    ELSE e

\* PhysicsEngine.update up to the jump step (lines 77-162).  time_since_jump
\* is current_time - last_jump_time as computed at line 88, before this tick
\* may start a jump.
before_jump(e0, objects, position, time_since_jump) ==
    LET e1 == warm_up(reset_landing(e0), 0)
        e2 == airtime_watchdog(e1, time_since_jump)
        e3 == eye_level_snap(e2, time_since_jump, position)
        e4 == ground_sensing(e3, objects, position)
    IN  landing_edge_filter(e4, e0.on_ground, e0.jumping, time_since_jump,
                            position)

\* PhysicsEngine.update up to the static collision (lines 77-231): the engine
\* state whose velocity gives the position asked for.
before_collision(e0, objects, position, movement_dir, jump_requested, dt, time_since_jump) ==
    LET e5 == before_jump(e0, objects, position, time_since_jump)
        e6 == jump_initiation(e5, jump_requested)
        e7 == cooldown_decay(e6, dt)
        e8 == horizontal_integration(e7, movement_dir)
    IN  vertical_integration(e8, dt)

\* ------------------------------------------------------------ interactive bodies
\* A body's velocity is an integer number of 1/100000 units per second (BU),
\* a force an integer number of 1/1000 newton (FU); mass is in kg, friction
\* in tenths.
BU == PU
FU == 10 * 100
\* A unit vector has components in 1/1000.
UnitScale == 10 * 100

\* No body-body resolution in a part of the tick.
no_resolution ==
    [found |-> FALSE, centres |-> <<0, 0, 0>>, overlap |-> 0, shift |-> <<0, 0, 0>>,
     kick |-> <<0, 0, 0>>, mass |-> 0, other_mass |-> 0, both_movable |-> FALSE]
unresolved == [push |-> no_resolution, pass |-> no_resolution]
\* No force from the player in either part of the tick.
unpushed == [push |-> <<0, 0, 0>>, pass |-> <<0, 0, 0>>]

InteractiveCube(p, s, mass, friction, is_movable) ==
    [kind |-> "InteractiveCube", position |-> p, size |-> <<s, s, s>>,
     mass |-> mass, friction |-> friction, is_movable |-> is_movable,
     velocity |-> <<0, 0, 0>>, force |-> <<0, 0, 0>>,
     updates |-> 0, collided |-> {}, recovered |-> FALSE, resolved |-> unresolved,
     pushed |-> unpushed]
InteractiveSphere(p, radius, mass, friction, is_movable) ==
    [kind |-> "InteractiveSphere", position |-> p, radius |-> radius,
     mass |-> mass, friction |-> friction, is_movable |-> is_movable,
     velocity |-> <<0, 0, 0>>, force |-> <<0, 0, 0>>,
     updates |-> 0, collided |-> {}, recovered |-> FALSE, resolved |-> unresolved,
     pushed |-> unpushed]

InteractiveKinds == {"InteractiveCube", "InteractiveTriangle", "InteractiveSphere"}

\* What a tick did to a body so far, kept with the body: updates counts the
\* calls of its update(dt); collided names the parts of the tick in which a
\* body-body routine found it colliding ("push": the player's push of line
\* 234, before the static collision check; "pass": the body pass of line
\* 296); recovered tells that lines 497-504 put it back into the world;
\* resolved describes, for each part, the last body-body resolution it took
\* part in (the vector between the centres and the overlap found, the
\* displacement and the change of velocity it was given, the masses of the
\* pair, whether both could move); pushed is the force the player's push
\* handed to its apply_force in each part.
start_of_tick(objs) ==
    [i \in 1..Len(objs) |->
        IF objs[i].kind \in InteractiveKinds
        THEN [objs[i] EXCEPT !.updates = 0, !.collided = {}, !.recovered = FALSE,
                             !.resolved = unresolved, !.pushed = unpushed]
        ELSE objs[i]]
updated(obj) == [obj EXCEPT !.updates = obj.updates + 1]
found_colliding(obj, part) == [obj EXCEPT !.collided = obj.collided \cup {part}]
pushed_with(obj, part, force_vector) == [obj EXCEPT !.pushed[part] = force_vector]
resolution(before, after, other, d, overlap, part) ==
    [after EXCEPT !.resolved[part] =
        [found |-> TRUE, centres |-> d, overlap |-> overlap,
         shift |-> <<after.position[1] - before.position[1],
                     after.position[2] - before.position[2],
                     after.position[3] - before.position[3]>>,
         kick |-> <<after.velocity[1] - before.velocity[1],
                    after.velocity[2] - before.velocity[2],
                    after.velocity[3] - before.velocity[3]>>,
         mass |-> before.mass, other_mass |-> other.mass,
         both_movable |-> before.is_movable /\ other.is_movable]]

Add3(a, b) == <<a[1] + b[1], a[2] + b[2], a[3] + b[3]>>
Sub3(a, b) == <<a[1] - b[1], a[2] - b[2], a[3] - b[3]>>
\* v * k / d, each component rounded toward zero.
Scale3(v, k, d) == <<QuoT(v[1] * k, d), QuoT(v[2] * k, d), QuoT(v[3] * k, d)>>

\* np.linalg.norm(v) < limit, for a limit below 0.3.
NormBelow(v, limit) ==
    /\ Abs(v[1]) < limit /\ Abs(v[2]) < limit /\ Abs(v[3]) < limit
    /\ v[1] * v[1] + v[2] * v[2] + v[3] * v[3] < limit * limit

\* The divisor that brings the largest component of v under SquareLimit, so
\* that the squares of its components add up within 32 bits.
SquareLimit == 26 * 1000
NormScale3(v) ==
    IF Max(Abs(v[1]), Max(Abs(v[2]), Abs(v[3]))) <= SquareLimit THEN 1
    ELSE IF Max(Abs(v[1]), Max(Abs(v[2]), Abs(v[3]))) <= 100 * SquareLimit THEN 100
    ELSE 100 * 100
\* np.linalg.norm(v), in units of k.
Norm3(v, k) ==
    ISqrt(QuoT(v[1], k) * QuoT(v[1], k) + QuoT(v[2], k) * QuoT(v[2], k)
          + QuoT(v[3], k) * QuoT(v[3], k))
\* v / np.linalg.norm(v), components in 1/UnitScale; v is not zero.
Unit3(v) ==
    <<QuoT(QuoT(v[1], NormScale3(v)) * UnitScale, Norm3(v, NormScale3(v))),
      QuoT(QuoT(v[2], NormScale3(v)) * UnitScale, Norm3(v, NormScale3(v))),
      QuoT(QuoT(v[3], NormScale3(v)) * UnitScale, Norm3(v, NormScale3(v)))>>
\* The direction of v, or +X when v has no length.
direction_or_x(v) ==
    IF v = <<0, 0, 0>> THEN <<UnitScale, 0, 0>> ELSE Unit3(v)
\* np.dot(a, n) for a unit vector n: in the unit of a.
DotUnit(a, n) ==
    QuoT(QuoT(a[1], 10) * n[1] + QuoT(a[2], 10) * n[2] + QuoT(a[3], 10) * n[3],
         UnitScale \div 10)

\* apply_force without its test of is_movable.
apply_force_unguarded(obj, force_vector) ==
    [obj EXCEPT !.force = Add3(obj.force, force_vector)]

\* InteractiveCube.apply_force (the same in the other interactive classes).
apply_force(obj, force_vector) ==
    IF obj.is_movable
    THEN [obj EXCEPT !.force = Add3(obj.force, force_vector)]
    ELSE obj

\* obj.apply_force(force), called by the player's push in a part of the tick
\* (lines 361 and 597).
player_force(obj, part, force_vector) ==
    apply_force(pushed_with(obj, part, force_vector), force_vector)

\* 0.01: a body slower than this is stopped.
rest_speed == BU \div 100

\* The friction step without the stop of a slow body (lines 217-218 left out).
friction_step_unstopped(v, friction, dt) ==
    Sub3(v, Scale3(v, friction * dt, 10 * TU))

\* The velocity after the friction step of update(dt).
friction_step(v, friction, dt) ==
    IF v = <<0, 0, 0>> THEN v
    ELSE IF NormBelow(Sub3(v, Scale3(v, friction * dt, 10 * TU)), rest_speed)
         THEN <<0, 0, 0>>
         ELSE Sub3(v, Scale3(v, friction * dt, 10 * TU))

\* The velocity part of InteractiveCube.update: acceleration, then friction.
integrate_velocity(obj, dt) ==
    friction_step(Add3(obj.velocity, Scale3(obj.force, dt, obj.mass)),
                  obj.friction, dt)

\* position + velocity * dt for a body.
integrate_body(p, v, dt) == Add3(p, Scale3(v, dt, TU))

\* InteractiveCube.update(dt) (the same in the other interactive classes).
object_update(obj, dt) ==
    IF ~obj.is_movable THEN obj
    ELSE [obj EXCEPT !.velocity = integrate_velocity(obj, dt),
                     !.position = integrate_body(obj.position,
                                                 integrate_velocity(obj, dt), dt),
                     !.force = <<0, 0, 0>>]

\* ---- PhysicsEngine._handle_object_object_collisions (boxes by their sides)
player_mass == 70
\* 500 N.
player_push_strength == 500 * FU
\* 2.0: the distance at which the player can push a body.
interaction_radius == 2 * PU
\* 0.3, in the unit of a dot product of two unit vectors.
push_threshold == 3 * ((UnitScale * UnitScale) \div 10)

\* The (width, height, depth) the routine uses; spheres are not handled.
object_size(obj) == obj.size
sized(obj) == obj.kind \in {"InteractiveCube", "InteractiveTriangle"}

\* Overlap of two boxes along axis a, for the vector d between the centres.
axis_overlap(o1, o2, d, a) ==
    (object_size(o1)[a] \div 2 + object_size(o2)[a] \div 2) - Abs(d[a])

\* Lines 416-422.
boxes_collide(o1, o2, d) ==
    /\ axis_overlap(o1, o2, d, 1) > 0
    /\ axis_overlap(o1, o2, d, 2) > 0
    /\ axis_overlap(o1, o2, d, 3) > 0

\* Lines 434-446: the axis of least overlap, x before y before z.
separation_axis(o1, o2, d) ==
    IF /\ axis_overlap(o1, o2, d, 1) <= axis_overlap(o1, o2, d, 2)
       /\ axis_overlap(o1, o2, d, 1) <= axis_overlap(o1, o2, d, 3)
    THEN 1
    ELSE IF axis_overlap(o1, o2, d, 2) <= axis_overlap(o1, o2, d, 3)
    THEN 2 ELSE 3

\* collision_normal[axis] * overlap on that axis, 0 on the others.
separation_vector(o1, o2, d, n, a) ==
    [i \in 1..3 |-> IF i = a THEN QuoT(n[a] * axis_overlap(o1, o2, d, a), UnitScale)
                    ELSE 0]

\* Lines 448-460 for one member of the pair: moved by its share (the other's
\* mass over the total) of sep, in the direction sign.
move_apart(obj, sep, other_mass, sign) ==
    IF obj.is_movable
    THEN [obj EXCEPT !.position =
              Add3(obj.position,
                   Scale3(sep, sign * other_mass, obj.mass + other_mass))]
    ELSE obj

\* impulse / mass for a member of the pair: the normal scaled by
\* -(1 + restitution) * velocity_along_normal * other_mass / total_mass;
\* restitution in tenths.
velocity_change(n, along, restitution, other_mass, total_mass) ==
    Scale3(n,
           QuoT(QuoT(QuoT(-along * (10 + restitution), 10) * other_mass, total_mass), 10),
           UnitScale \div 10)

\* Lines 462-482 for one member of the pair.
bounce(obj, n, along, restitution, other_mass, sign) ==
    IF along < 0 /\ obj.is_movable
    THEN [obj EXCEPT !.velocity =
              Add3(obj.velocity,
                   Scale3(velocity_change(n, along, restitution, other_mass,
                                          obj.mass + other_mass), sign, 1))]
    ELSE obj

\* Lines 396-482: the body at i (centre obj_pos when the routine was entered)
\* against the body at j.
sides_member(obj, other, d, sep, overlap, n, along, sign) ==
    resolution(obj,
               bounce(move_apart(found_colliding(obj, "push"), sep, other.mass, sign),
                      n, along, 3, other.mass, sign),
               other, d, overlap, "push")

sides_pair(objs, i, j, obj_pos, d, n) ==
    [objs EXCEPT
       ![i] = sides_member(objs[i], objs[j], d,
                separation_vector(objs[i], objs[j], d, n,
                                  separation_axis(objs[i], objs[j], d)),
                axis_overlap(objs[i], objs[j], d, separation_axis(objs[i], objs[j], d)),
                n, DotUnit(Sub3(objs[j].velocity, objs[i].velocity), n), -1),
       ![j] = sides_member(objs[j], objs[i], d,
                separation_vector(objs[i], objs[j], d, n,
                                  separation_axis(objs[i], objs[j], d)),
                axis_overlap(objs[i], objs[j], d, separation_axis(objs[i], objs[j], d)),
                n, DotUnit(Sub3(objs[j].velocity, objs[i].velocity), n), 1)]

RECURSIVE sides_loop(_, _, _, _)
sides_loop(objs, i, j, obj_pos) ==
    IF j > Len(objs) THEN objs
    ELSE IF /\ j # i
            /\ objs[j].kind \in InteractiveKinds
            /\ sized(objs[j])
            /\ boxes_collide(objs[i], objs[j], Sub3(objs[j].position, obj_pos))
         THEN sides_loop(sides_pair(objs, i, j, obj_pos,
                                    Sub3(objs[j].position, obj_pos),
                                    direction_or_x(Sub3(objs[j].position, obj_pos))),
                         i, j + 1, obj_pos)
         ELSE sides_loop(objs, i, j + 1, obj_pos)

\* PhysicsEngine._handle_object_object_collisions(obj), obj being objs[i].
handle_object_object_collisions(objs, i) ==
    IF sized(objs[i]) THEN sides_loop(objs, i, 1, objs[i].position) ELSE objs

\* ---- PhysicsEngine.handle_interactive_object_collisions (line 234)
\* Lines 324-335: the horizontal distance from new_position to the body is
\* below the interaction radius.
within_reach(obj, new_position) ==
    /\ Abs(obj.position[1] - new_position[1]) < interaction_radius
    /\ Abs(obj.position[3] - new_position[3]) < interaction_radius
    /\ QuoT(obj.position[1] - new_position[1], 10)
         * QuoT(obj.position[1] - new_position[1], 10)
       + QuoT(obj.position[3] - new_position[3], 10)
           * QuoT(obj.position[3] - new_position[3], 10)
       < (interaction_radius \div 10) * (interaction_radius \div 10)

\* Lines 337-340: from the player to the body, horizontally.
push_direction(obj, new_position) ==
    direction_or_x(<<obj.position[1] - new_position[1], 0,
                     obj.position[3] - new_position[3]>>)

\* np.dot of two unit vectors, in 1/(UnitScale * UnitScale).
DotUnits(m, n) == m[1] * n[1] + m[2] * n[2] + m[3] * n[3]

\* Lines 348-352: player_push_strength * dot_product * min(1, player_mass / mass).
push_strength(obj, dot_product) ==
    QuoT(QuoT((player_push_strength \div UnitScale) * dot_product, UnitScale)
           * Min(obj.mass, player_mass),
         obj.mass)

\* Lines 354-358: the force on the body, for dot_product > 0.3.
push_force(obj, push_dir, dot_product) ==
    <<QuoT(push_dir[1] * push_strength(obj, dot_product), UnitScale),
      0,
      QuoT(push_dir[3] * push_strength(obj, dot_product), UnitScale)>>

\* Lines 323-371 for the body at i: pushed, integrated and collided with the
\* other bodies when the player moves toward it.
push_object(objs, i, movement_vector, new_position, dt) ==
    IF /\ within_reach(objs[i], new_position)
       /\ DotUnits(movement_vector, push_direction(objs[i], new_position))
            > push_threshold
    THEN handle_object_object_collisions(
           [objs EXCEPT ![i] =
              object_update(
                player_force(updated(objs[i]), "push",
                  push_force(objs[i], push_direction(objs[i], new_position),
                             DotUnits(movement_vector,
                                      push_direction(objs[i], new_position)))),
                dt)],
           i)
    ELSE objs

RECURSIVE push_loop(_, _, _, _, _)
push_loop(objs, i, movement_vector, new_position, dt) ==
    IF i > Len(objs) THEN objs
    ELSE IF objs[i].kind \in InteractiveKinds
    THEN push_loop(push_object(objs, i, movement_vector, new_position, dt),
                   i + 1, movement_vector, new_position, dt)
    ELSE push_loop(objs, i + 1, movement_vector, new_position, dt)

\* 0.001: a smaller move of the player pushes nothing.
still_limit == PU \div 1000

\* PhysicsEngine.handle_interactive_object_collisions: the world's objects
\* after the call.
handle_interactive_object_collisions(objs, position, new_position, dt) ==
    IF NormBelow(Sub3(new_position, position), still_limit) THEN objs
    ELSE push_loop(objs, 1, Unit3(Sub3(new_position, position)), new_position, dt)

\* ---- PhysicsEngine.update_interactive_objects (line 296)
\* np.linalg.norm(v) < limit, for a limit up to 2.6 units (v and limit in PU).
WithinDistance(v, limit) ==
    /\ Abs(v[1]) < limit /\ Abs(v[2]) < limit /\ Abs(v[3]) < limit
    /\ QuoT(v[1], 10) * QuoT(v[1], 10) + QuoT(v[2], 10) * QuoT(v[2], 10)
       + QuoT(v[3], 10) * QuoT(v[3], 10)
       < (limit \div 10) * (limit \div 10)

\* -10: a body below it has fallen out of the world; 5.0: where it is put back.
world_floor == -10 * PU
recovery_height == 5 * PU
\* 0.1: the band around a resting height.
rest_band == PU \div 10

\* Lines 497-504.
recover(obj) ==
    [obj EXCEPT !.position = <<obj.position[1], recovery_height, obj.position[3]>>,
                !.velocity = <<0, 0, 0>>,
                !.recovered = TRUE]

\* The height of the centre of a body resting on the ground plane (line 510).
rest_height(obj) ==
    IF obj.kind = "InteractiveSphere" THEN obj.radius ELSE obj.size[2] \div 2

\* Lines 536-570: the sphere obj rests on the box other.
sphere_on_box(obj, other) ==
    /\ other.kind \in {"Cube", "InteractiveCube"}
    /\ Abs(obj.position[1] - other.position[1]) <= other.size[1] \div 2 + obj.radius
    /\ Abs(obj.position[3] - other.position[3]) <= other.size[3] \div 2 + obj.radius
    /\ Abs(obj.position[2] - obj.radius - cube_top(other)) < rest_band

\* The first object of the world, in order, that supports the sphere at i
\* (0: none).
RECURSIVE supporting_object(_, _, _)
supporting_object(objs, i, j) ==
    IF j > Len(objs) THEN NoObject
    ELSE IF j # i /\ sphere_on_box(objs[i], objs[j]) THEN j
    ELSE supporting_object(objs, i, j + 1)

\* Lines 506-570: the body after the ground and support test, with the
\* weight applied when nothing carries it (lines 572-573).
ground_test(objs, i) ==
    IF Abs(objs[i].position[2] - rest_height(objs[i])) < rest_band
    THEN [objs[i] EXCEPT !.velocity = <<objs[i].velocity[1], 0, objs[i].velocity[3]>>]
    ELSE IF objs[i].kind = "InteractiveSphere"
            /\ supporting_object(objs, i, 1) # NoObject
    THEN [objs[i] EXCEPT
            !.position = <<objs[i].position[1],
                           cube_top(objs[supporting_object(objs, i, 1)])
                             + objs[i].radius,
                           objs[i].position[3]>>,
            !.velocity = <<objs[i].velocity[1], 0, objs[i].velocity[3]>>]
    ELSE apply_force(objs[i], <<0, -(((gravity * FU) \div VU) * objs[i].mass), 0>>)

\* sqrt(width^2 + height^2 + depth^2) / 2 of a box.
half_diagonal(obj) ==
    (Norm3(obj.size, NormScale3(obj.size)) * NormScale3(obj.size)) \div 2

\* The radius that stands for a body in the distance tests (lines 613-642
\* and 657-687); a triangle counts by its whole size.
body_reach(obj) ==
    IF obj.kind = "InteractiveCube" THEN half_diagonal(obj)
    ELSE IF obj.kind = "InteractiveSphere" THEN obj.radius
    ELSE obj.size[1]

\* PhysicsEngine._check_player_object_collision.
check_player_object_collision(player_position, obj) ==
    WithinDistance(Sub3(player_position, obj.position), body_reach(obj) + player_radius)

\* Lines 576-589: from the player to the body, horizontally; the player's own
\* direction when they coincide.
pass_push_direction(obj, player_position, player_direction) ==
    IF obj.position[1] = player_position[1] /\ obj.position[3] = player_position[3]
    THEN direction_or_x(<<player_direction[1], 0, player_direction[3]>>)
    ELSE Unit3(<<obj.position[1] - player_position[1], 0,
                 obj.position[3] - player_position[3]>>)

\* Lines 591-597: push_dir * player_push_strength * (1 + max(0, dot)), with
\* dot the product of movement_dir (in VU) and push_dir.
pass_push_force(push_dir, player_direction) ==
    Scale3(push_dir,
           QuoT(VU * UnitScale + Max(0, DotUnits(player_direction, push_dir)), 10),
           (VU * UnitScale * UnitScale) \div (10 * player_push_strength))

\* Lines 575-597.
player_push(obj, player_position, player_direction) ==
    IF check_player_object_collision(player_position, obj)
    THEN player_force(obj, "pass",
           pass_push_force(pass_push_direction(obj, player_position, player_direction),
                           player_direction))
    ELSE obj

\* The impulse of lines 706-718 divided by the other body's mass: each body
\* gets the velocity change meant for the other one.
reach_member_other_mass(obj, other, n, along, overlap, sign) ==
    IF along < 0 /\ obj.is_movable
    THEN [obj EXCEPT
            !.velocity = Add3(obj.velocity,
                              Scale3(velocity_change(n, along, 8, obj.mass,
                                                     obj.mass + other.mass),
                                     sign, 1)),
            !.position = Add3(obj.position,
                              Scale3(n, sign * overlap,
                                     IF other.is_movable THEN 2 * UnitScale
                                     ELSE UnitScale))]
    ELSE obj

\* ---- PhysicsEngine._handle_object_object_collision (bodies by their reach)
\* Lines 689-731 for obj1: the impulse, and the separation by the whole
\* overlap when obj2 cannot move, by half of it otherwise.
reach_member(obj, other, n, along, overlap, sign) ==
    IF along < 0 /\ obj.is_movable
    THEN [obj EXCEPT
            !.velocity = Add3(obj.velocity,
                              Scale3(velocity_change(n, along, 8, other.mass,
                                                     obj.mass + other.mass),
                                     sign, 1)),
            !.position = Add3(obj.position,
                              Scale3(n, sign * overlap,
                                     IF other.is_movable THEN 2 * UnitScale
                                     ELSE UnitScale))]
    ELSE obj

reach_resolve(obj, other, d, n, along, overlap, sign) ==
    resolution(obj,
               reach_member(found_colliding(obj, "pass"), other, n, along, overlap, sign),
               other, d, overlap, "pass")

\* The distance between the centres of two bodies.
centre_distance(obj1, obj2) ==
    Norm3(Sub3(obj2.position, obj1.position),
          NormScale3(Sub3(obj2.position, obj1.position)))
      * NormScale3(Sub3(obj2.position, obj1.position))

\* PhysicsEngine._handle_object_object_collision(obj1, obj2), the bodies at i
\* and j.
handle_object_object_collision(objs, i, j) ==
    IF centre_distance(objs[i], objs[j]) < body_reach(objs[i]) + body_reach(objs[j])
    THEN [objs EXCEPT
            ![i] = reach_resolve(objs[i], objs[j],
                     Sub3(objs[j].position, objs[i].position),
                     direction_or_x(Sub3(objs[j].position, objs[i].position)),
                     DotUnit(Sub3(objs[j].velocity, objs[i].velocity),
                             direction_or_x(Sub3(objs[j].position, objs[i].position))),
                     body_reach(objs[i]) + body_reach(objs[j])
                       - centre_distance(objs[i], objs[j]),
                     -1),
            ![j] = reach_resolve(objs[j], objs[i],
                     Sub3(objs[j].position, objs[i].position),
                     direction_or_x(Sub3(objs[j].position, objs[i].position)),
                     DotUnit(Sub3(objs[j].velocity, objs[i].velocity),
                             direction_or_x(Sub3(objs[j].position, objs[i].position))),
                     body_reach(objs[i]) + body_reach(objs[j])
                       - centre_distance(objs[i], objs[j]),
                     1)]
    ELSE objs

\* Lines 605-608: the body at i against every other tracked body, in order.
RECURSIVE reach_loop(_, _, _)
reach_loop(objs, i, j) ==
    IF j > Len(objs) THEN objs
    ELSE IF j # i /\ objs[j].kind \in InteractiveKinds
    THEN reach_loop(handle_object_object_collision(objs, i, j), i, j + 1)
    ELSE reach_loop(objs, i, j + 1)

\* The body pass with a support test that, instead of setting the sphere on
\* the box that carries it, raises or lowers that box to the sphere.
update_object_moving_support(objs, i, dt, player_position, player_direction) ==
    IF objs[i].position[2] < world_floor
    THEN [objs EXCEPT ![i] = recover(objs[i])]
    ELSE IF /\ objs[i].kind = "InteractiveSphere"
            /\ Abs(objs[i].position[2] - rest_height(objs[i])) >= rest_band
            /\ supporting_object(objs, i, 1) # NoObject
    THEN [objs EXCEPT
            ![supporting_object(objs, i, 1)].position =
                <<@[1], objs[i].position[2] - objs[i].radius
                          - objs[supporting_object(objs, i, 1)].size[2] \div 2, @[3]>>,
            ![i] = updated(objs[i])]
    ELSE reach_loop(
           [objs EXCEPT ![i] =
              object_update(player_push(updated(ground_test(objs, i)),
                                        player_position, player_direction),
                            dt)],
           i, 1)

\* Lines 496-608 for the body at i.
update_object(objs, i, dt, player_position, player_direction) ==
    IF objs[i].position[2] < world_floor
    THEN [objs EXCEPT ![i] = recover(objs[i])]
    ELSE reach_loop(
           [objs EXCEPT ![i] =
              object_update(player_push(updated(ground_test(objs, i)),
                                        player_position, player_direction),
                            dt)],
           i, 1)

RECURSIVE update_loop(_, _, _, _, _)
update_loop(objs, i, dt, player_position, player_direction) ==
    IF i > Len(objs) THEN objs
    ELSE IF objs[i].kind \in InteractiveKinds
    THEN update_loop(update_object(objs, i, dt, player_position, player_direction),
                     i + 1, dt, player_position, player_direction)
    ELSE update_loop(objs, i + 1, dt, player_position, player_direction)

\* PhysicsEngine.update_interactive_objects: the world's objects after it.
update_interactive_objects(objs, dt, player_position, player_direction) ==
    update_loop(objs, 1, dt, player_position, player_direction)

\* ---- PhysicsEngine.update, from the move on
\* Lines 239-297, once check_collision has returned c (c.pos is
\* adjusted_position, the rest the detector's state after the call): [e: the
\* engine state, pos: the position returned, new_position: the position asked
\* for, objects: the world's objects after the body pass of line 296].
after_collision(e9, objs, position, new_position, c, movement_dir, dt, time_since_jump) ==
    [e |-> ground_level_landing(
             high_altitude_correction(
               minimum_airtime(
                 velocity_zeroing(
                   [e9 EXCEPT !.det = [so |-> c.so, sh |-> c.sh, ogl |-> c.ogl]],
                   new_position, c.pos, time_since_jump),
                 time_since_jump),
               position),
             c.pos, time_since_jump),
     pos |-> c.pos,
     new_position |-> new_position,
     objects |-> update_interactive_objects(objs, dt, position, movement_dir)]

\* Line 237: the static collision check of the position asked for.
static_collision(e9, objs, position, new_position, movement_dir, dt, time_since_jump) ==
    after_collision(e9, objs, position, new_position,
                    check_collision(e9.det, objs, position, new_position),
                    movement_dir, dt, time_since_jump)

\* Line 234: the player's push on the bodies, then the rest of the tick.
push_objects(e9, objs, position, new_position, movement_dir, dt, time_since_jump) ==
    static_collision(e9,
                     handle_interactive_object_collisions(objs, position,
                                                          new_position, dt),
                     position, new_position, movement_dir, dt, time_since_jump)

\* Lines 227-297: the move by the velocity of engine state e9 and what
\* follows it.
apply_velocity(e9, objs, position, movement_dir, dt, time_since_jump) ==
    push_objects(e9, objs, position,
                 integrate_position(position, e9.velocity, dt),
                 movement_dir, dt, time_since_jump)

\* PhysicsEngine.update.
update(e0, objects, position, movement_dir, jump_requested, dt, time_since_jump) ==
    apply_velocity(before_collision(e0, objects, position, movement_dir,
                                    jump_requested, dt, time_since_jump),
                   start_of_tick(objects), position, movement_dir, dt,
                   time_since_jump)

\* ------------------------------------------------------------ state
VARIABLES
    objects,        \* World.objects, in insertion order
    position,       \* Camera.position, handed to update and replaced by its result
    space_pressed,  \* Camera.space_pressed
    engine,         \* the PhysicsEngine's fields, with its CollisionDetector's (det)
    since_jump,     \* time.time() - engine.last_jump_time, capped at TimeCap
    last_dt,        \* the step dt of the last tick
    asked,          \* new_position of the last tick
    fall_time,      \* time spent falling without contact, capped at TimeCap
    intent,         \* movement_dir of the last tick (the movement keys held)
    events_used,    \* ticks so far whose input was not the steady one
    start           \* position at the start of the last tick (prev_position)

vars == <<objects, position, space_pressed, engine, since_jump, last_dt, asked,
          fall_time, intent, events_used, start>>

\* Times above the cap are not told apart: the code compares elapsed times
\* with 0.5 s and 2.0 s only.
TimeCap == 250
\* The largest horizontal distance from the platform's centre at which a tick
\* is taken.
Arena == 6
\* A run is steady frames (the capped step, the movement keys as they were,
\* no press of the jump key) with input events worth at most MaxEvents: a
\* short frame, a stall and a press of the jump key count 1 each, a change of
\* the movement keys counts 2.
MaxEvents == 3

ground == Plane(<<0, 0, 0>>)
\* The first platform of the jumping path: 4 x 1 x 4 at (8, 0.5, 8).
platform == Cube(<<8 * PU, PU \div 2, 8 * PU>>, <<4 * PU, PU, 4 * PU>>)
\* The world of the runs: static colliders only, so the engine's list of
\* interactive objects is empty and the steps that loop over it (lines 234
\* and 488-731) do nothing.
Worlds == {<<ground, platform>>}

\* Where the player is put, with a new engine: on the open ground 4 units
\* west of the platform's centre, on the platform, and high above the ground.
open_ground == <<4 * PU, player_height, 8 * PU>>
SpawnPoints ==
    {open_ground,
     <<8 * PU, PU + player_height, 8 * PU>>,
     <<4 * PU, 25 * PU, 8 * PU>>}

\* Time between two calls of update: a short frame, a frame of the capped
\* length, a stall.
Advances == {2, 10, 250}
speed == 5 * VU
Intents == {<<0, 0, 0>>, <<speed, 0, 0>>}

\* PhysicsEngine.__init__ and CollisionDetector.__init__.
engine_init ==
    [velocity |-> <<0, 0, 0>>, on_ground |-> TRUE, jumping |-> FALSE,
     jump_cooldown |-> 0, force_on_ground |-> TRUE,
     standing_on_platform |-> FALSE, platform_height |-> 0,
     last_platform_height |-> 0, just_landed |-> FALSE,
     landing_position |-> None,
     det |-> [so |-> NoObject, sh |-> 0, ogl |-> FALSE],
     jumped |-> FALSE, events |-> {}]

Init ==
    /\ objects \in Worlds
    /\ position \in SpawnPoints
    /\ space_pressed = FALSE
    /\ engine = engine_init
    /\ since_jump = TimeCap
    /\ last_dt = 0
    /\ asked = position
    /\ fall_time = 0
    /\ intent = <<0, 0, 0>>
    /\ events_used = 0
    /\ start = position

\* Camera.update, lines 64-94: one frame.
camera_position(e, adjusted) ==
    IF e.just_landed /\ e.standing_on_platform /\ e.landing_position # None
    THEN <<adjusted[1], e.landing_position[2], adjusted[3]>>
    ELSE adjusted

\* A tick of an unobstructed fall: the player was not moving up, gravity was
\* the only rule that wrote velocity.y, and the collision detector left the
\* height asked for as it was.
falling_freely(e, u) ==
    /\ "gravity" \in u.e.events
    /\ u.e.events \cap {"jump", "watchdog", "eye_snap", "landed",
                        "collision_landing", "ground_landing"} = {}
    /\ e.velocity[2] <= 0
    /\ u.pos[2] = u.new_position[2]

Tick(adv, movement_dir, space) ==
    LET jump_requested == space /\ ~space_pressed
        dt == Min(adv, max_dt)
        time_since_jump == Min(since_jump + adv, TimeCap)
        cost == (IF adv # max_dt THEN 1 ELSE 0)
                + (IF jump_requested THEN 1 ELSE 0)
                + (IF movement_dir # intent THEN 2 ELSE 0)
    IN  /\ Abs(position[1] - platform.position[1]) <= Arena * PU
        /\ Abs(position[3] - platform.position[3]) <= Arena * PU
        /\ events_used + cost <= MaxEvents
        /\ \E u \in {update(engine, objects, position, movement_dir,
                           jump_requested, dt, time_since_jump)} :
            /\ events_used' = events_used + cost
            /\ intent' = movement_dir
            /\ engine' = u.e
            /\ position' = camera_position(u.e, u.pos)
            /\ space_pressed' = space
            /\ since_jump' = IF u.e.jumped THEN 0 ELSE time_since_jump
            /\ last_dt' = dt
            /\ asked' = u.new_position
            /\ start' = position
            /\ fall_time' = IF falling_freely(engine, u)
                            THEN Min(fall_time + dt, TimeCap) ELSE 0
            /\ objects' = u.objects

Next == \E adv \in Advances, movement_dir \in Intents, space \in BOOLEAN :
            Tick(adv, movement_dir, space)

Spec == Init /\ [][Next]_vars


\* ------------------------------------------------------------ collision queries
\* CollisionDetector.check_collision on its own: the caller's position is any
\* point of a grid around a corner of the castle's base (top 3.0), the
\* desired position any other; the detector starts as constructed and keeps
\* what each query leaves in it.
castle_base == Cube(<<0, (15 * PU) \div 10, -20 * PU>>, <<12 * PU, 3 * PU, 12 * PU>>)

\* 0.1 world units.
Tenth == PU \div 10
\* x: inside the expanded footprint, on its edge (6.5), outside.
ProbeX == {62 * Tenth, 65 * Tenth, 68 * Tenth}
\* z: inside, on the edge (-13.5), outside.
ProbeZ == {-138 * Tenth, -135 * Tenth, -132 * Tenth}
\* y: below the ground's eye height, on the ground (feet inside the box),
\* feet 0.05 under the top, on the top, 0.05 and 0.1 over it, clear of it.
ProbeY == {14 * Tenth, 17 * Tenth, 47 * Tenth - Tenth \div 2, 47 * Tenth,
           47 * Tenth + Tenth \div 2, 48 * Tenth, 50 * Tenth}
ProbePoints == {<<x, y, z>> : x \in ProbeX, y \in ProbeY, z \in ProbeZ}

InitCollision ==
    /\ objects = <<ground, castle_base>>
    /\ position \in ProbePoints
    /\ space_pressed = FALSE
    /\ engine = engine_init
    /\ since_jump = TimeCap
    /\ last_dt = 0
    /\ asked = position
    /\ fall_time = 0
    /\ intent = <<0, 0, 0>>
    /\ events_used = 0
    /\ start = position

\* adjusted_position = check_collision(position, new_position), from a
\* position on the grid.
Probe(new_position) ==
    LET c == check_collision(engine.det, objects, position, new_position)
    IN  /\ position \in ProbePoints
        /\ position' = c.pos
        /\ engine' = [engine EXCEPT !.det = [so |-> c.so, sh |-> c.sh, ogl |-> c.ogl]]
        /\ asked' = new_position
        /\ start' = position
        /\ UNCHANGED <<objects, space_pressed, since_jump, last_dt, fall_time,
                       intent, events_used>>

NextCollision == \E new_position \in ProbePoints : Probe(new_position)

SpecCollision == InitCollision /\ [][NextCollision]_vars

\* ------------------------------------------------------------ bodies in the world
\* Worlds with interactive bodies next to the player's spawn point on the open
\* ground, (4, 1.7, 8). The boxes are the world's 1.5-unit boxes.
box_size == (15 * PU) \div 10
box_height == box_size \div 2
\* A light box within the player's reach and a heavier one 1.9 units behind it.
pushing_world ==
    <<ground,
      InteractiveCube(<<(55 * PU) \div 10, box_height, 8 * PU>>, box_size, 10, 2, TRUE),
      InteractiveCube(<<(74 * PU) \div 10, box_height, 8 * PU>>, box_size, 30, 3, TRUE)>>
\* The light box in front of a box that cannot move.
fixed_world ==
    <<ground,
      InteractiveCube(<<(55 * PU) \div 10, box_height, 8 * PU>>, box_size, 10, 2, TRUE),
      InteractiveCube(<<7 * PU, box_height, 8 * PU>>, box_size, 30, 3, FALSE)>>
\* A 2 x 1 x 2 pedestal with a sphere of radius 0.8 that cannot move, placed
\* 0.05 over the pedestal's top.
pedestal == Cube(<<7 * PU, PU \div 2, 8 * PU>>, <<2 * PU, PU, 2 * PU>>)
sphere_world ==
    <<ground, pedestal,
      InteractiveSphere(<<7 * PU, PU + (8 * PU) \div 10 + PU \div 20, 8 * PU>>,
                        (8 * PU) \div 10, 5, 1, FALSE)>>
\* A light box put into the world 3 units up, 2 units from the player.
falling_world ==
    <<ground,
      InteractiveCube(<<6 * PU, 3 * PU, 8 * PU>>, box_size, 10, 2, TRUE)>>

\* Two movable boxes put at the same place, out of the standing player's reach.
stacked_world ==
    <<ground,
      InteractiveCube(<<(74 * PU) \div 10, box_height, 8 * PU>>, box_size, 10, 2, TRUE),
      InteractiveCube(<<(74 * PU) \div 10, box_height, 8 * PU>>, box_size, 30, 3, TRUE)>>

BodyWorlds == {pushing_world, fixed_world, sphere_world, falling_world, stacked_world}

\* The tracked bodies: PhysicsEngine.interactive_objects, by index in the world.
interactive_objects == {i \in 1..Len(objects) : objects[i].kind \in InteractiveKinds}

InitBodies ==
    /\ objects \in BodyWorlds
    /\ position = open_ground
    /\ space_pressed = FALSE
    /\ engine = engine_init
    /\ since_jump = TimeCap
    /\ last_dt = 0
    /\ asked = position
    /\ fall_time = 0
    /\ intent = <<0, 0, 0>>
    /\ events_used = 0
    /\ start = position

\* No body has left the arena of the runs.
bodies_in_arena ==
    \A i \in interactive_objects :
        /\ Abs(objects[i].position[1] - platform.position[1]) <= Arena * PU
        /\ Abs(objects[i].position[3] - platform.position[3]) <= Arena * PU

\* Frames of the capped length; the movement keys are the only input.
NextBodies ==
    \E movement_dir \in Intents :
        bodies_in_arena /\ Tick(max_dt, movement_dir, FALSE)

SpecBodies == InitBodies /\ [][NextBodies]_vars

\* ------------------------------------------------------------ leaving a box
\* The player stands on the platform (feet on its top, which lines 167 and
\* 248 count as colliding with it) and keeps one movement key held.
OnPlatform ==
    {<<8 * PU, PU + player_height, 8 * PU>>,
     <<7 * PU, PU + player_height, (85 * PU) \div 10>>,
     <<(85 * PU) \div 10, PU + player_height, (65 * PU) \div 10>>}
\* A hill of the world (a prism of side 10 and height 8 on the ground), set at
\* the centre of the arena.
hill == Triangle(<<8 * PU, 0, 8 * PU>>, 10 * PU, 8 * PU)
\* Where a player who walks into the hill is let in: between the hill's
\* bounding box and that box expanded by the player radius the query
\* returns the desired position as it is.
InsideHill ==
    {resolve_triangle_collision(hill,
        <<(245 * PU) \div 100, player_height, 3 * PU>>,
        <<(255 * PU) \div 100, player_height, 3 * PU>>),
     resolve_triangle_collision(hill,
        <<4 * PU, player_height, (136 * PU) \div 10>>,
        <<4 * PU, player_height, (135 * PU) \div 10>>)}
Headings == {<<speed, 0, 0>>, <<-speed, 0, 0>>, <<0, 0, speed>>}

\* The player's position collides with the box or prism obj.
inside_shape(obj, p) ==
    IF obj.kind = "Cube" THEN check_cube_collision(obj, p)
    ELSE IF obj.kind = "Triangle" THEN check_triangle_collision(obj, p)
    ELSE FALSE

InitEscape ==
    /\ \/ objects = <<ground, platform>> /\ position \in OnPlatform
       \/ objects = <<ground, hill>> /\ position \in InsideHill
    /\ space_pressed = FALSE
    /\ engine = engine_init
    /\ since_jump = TimeCap
    /\ last_dt = 0
    /\ asked = position
    /\ fall_time = 0
    /\ intent \in Headings
    /\ events_used = 0
    /\ start = position

\* Frames of the capped length with the key of the run held.
NextEscape == Tick(max_dt, intent, FALSE)

\* The player is within the arena of the runs: the guard of Tick.
tick_ready ==
    /\ Abs(position[1] - platform.position[1]) <= Arena * PU
    /\ Abs(position[3] - platform.position[3]) <= Arena * PU

\* The game loop calls update once per frame, for as long as it runs (main.py
\* 70-105): weak fairness of the frame, WF_vars(NextEscape), written out with
\* the guard of Tick for its enabling condition.  (A frame that is ready
\* and changes nothing is told apart by C24's second conjunct.)
frames_keep_coming == []<>(~tick_ready) \/ []<><<NextEscape>>_vars

SpecEscape == InitEscape /\ [][NextEscape]_vars /\ frames_keep_coming

-----------------------------------------------------------------------------
\* Properties of the jump cycle.

\* C1 (jump initiation): a tick whose jump step ran (jump requested, grounded
\* at the jump step, cooldown not positive) ends with jumping true, on_ground
\* false and last_jump_time equal to the tick's time.
C1_JumpInitiation ==
    engine.jumped =>
        engine.jumping /\ ~engine.on_ground /\ since_jump = 0

\* The jump step of the last tick ran on a frame of at least 1/60 s, and the
\* tick ended with the jump cancelled.
C1_JumpCancelled ==
    engine.jumped /\ last_dt >= 2 /\ ~engine.jumping /\ engine.on_ground

\* C2 (landing monotonicity): jumping goes from true to false only in a tick
\* that starts more than min_air_time after the start of that same jump; a
\* jump is never cleared earlier, the tick that initiates it included.
C2_LandingMonotonicity ==
    [][/\ engine'.jumped => engine'.jumping
       /\ (engine.jumping /\ ~engine'.jumping /\ ~engine'.jumped)
              => since_jump' > min_air_time]_vars

\* A jump was cleared in a later tick, more than min_air_time after it began.
C2_ClearedLater ==
    ~engine.jumping /\ ~engine.jumped /\ since_jump > min_air_time
    /\ since_jump < TimeCap
    /\ engine.events \cap {"eye_snap", "landed", "ground_landing", "watchdog"} # {}

\* C3 (minimum airtime): at the end of every tick, jumping with less than
\* min_air_time elapsed since the jump began implies on_ground false.
C3_MinimumAirtime ==
    (engine.jumping /\ since_jump < min_air_time) => ~engine.on_ground

\* A jump in its first half second with the eyes still within 0.1 of the
\* default eye height, where ground sensing alone would report the ground.
C3_JumpingNearGround ==
    /\ engine.jumping /\ since_jump < min_air_time /\ ~engine.on_ground
    /\ Abs(position[2] - default_eye_height) < PU \div 10

\* The vertical velocity and the jumping flag with which a tick of this
\* state ends, for a frame time adv, movement keys movement_dir and a jump
\* request or none.
jump_outcome(adv, movement_dir, jump_requested) ==
    LET u == update(engine, objects, position, movement_dir, jump_requested,
                    Min(adv, max_dt), Min(since_jump + adv, TimeCap))
    IN  <<u.e.velocity[2], u.e.jumping>>

\* C4 (cooldown gating): in a state with jump_cooldown > 0 (and the jump key
\* up, so that the camera can pass a request), a tick with jump_requested =
\* true ends with the same velocity.y and the same jumping flag as the same
\* tick with jump_requested = false.
C4_CooldownGating ==
    (engine.jump_cooldown > 0 /\ ~space_pressed) =>
        \A adv \in Advances, movement_dir \in Intents :
            jump_outcome(adv, movement_dir, TRUE)
                = jump_outcome(adv, movement_dir, FALSE)

\* C4, amended: the same holds of every tick in which jump_cooldown is still
\* positive when the jump step is reached, that is, when none of the landing
\* rules of lines 97-162 has reset it earlier in that tick.
C4_GatingAtJumpStep ==
    \A adv \in Advances, movement_dir \in Intents :
        before_jump(engine, objects, position,
                    Min(since_jump + adv, TimeCap)).jump_cooldown > 0
        => jump_outcome(adv, movement_dir, TRUE)
               = jump_outcome(adv, movement_dir, FALSE)

\* The last tick carried a jump request that the jump step refused because
\* the cooldown was running.
C4_RefusedOnCooldown ==
    "on_cooldown" \in engine.events /\ ~engine.jumped /\ engine.jumping

\* C5 (terminal velocity): velocity.y is never below -terminal_velocity, and
\* once an unobstructed fall has lasted longer than terminal_velocity/gravity
\* every falling tick ends with velocity.y = -terminal_velocity exactly.
C5_TerminalVelocity ==
    /\ engine.velocity[2] >= -terminal_velocity
    /\ fall_time * gravity > terminal_velocity * TU
           => engine.velocity[2] = -terminal_velocity

\* A free fall that has lasted longer than terminal_velocity/gravity.
C5_LongFall ==
    fall_time * gravity > terminal_velocity * TU
    /\ engine.velocity[2] = -terminal_velocity

\* C6 (end-to-end jump landing): for a jump on the open ground (straight up,
\* away from the platform, no stall), the tick in which the jump ends has on_ground = true,
\* jumping = false and just_landed = true, and just_landed is true in no
\* other tick.
C6_JumpLanding ==
    [][(position'[1] = open_ground[1] /\ position'[3] = open_ground[3]
        /\ "watchdog" \notin engine'.events)
       => /\ (engine.jumping /\ ~engine'.jumping)
                 => (engine'.on_ground /\ engine'.just_landed)
          /\ engine'.just_landed => (engine.jumping /\ ~engine'.jumping)]_vars

\* A jump on the open ground ended in a tick that reported the landing.
C6_LandingReported ==
    /\ position[1] = open_ground[1] /\ position[3] = open_ground[3]
    /\ engine.just_landed /\ engine.on_ground /\ ~engine.jumping
    /\ since_jump > min_air_time /\ since_jump < max_air_time

C8_WatchdogGrounds ==
    ("watchdog" \in engine.events /\ ~engine.jumped) => engine.on_ground

\* The watchdog fired high above the ground and the tick ended airborne.
C8_WatchdogAirborne ==
    /\ "watchdog" \in engine.events /\ ~engine.jumped /\ ~engine.on_ground
    /\ position[2] > default_eye_height + PU \div 5

-----------------------------------------------------------------------------
\* Properties of the collision queries.  After a query, start is the position
\* handed in, asked the desired position and position the result.

\* C9 (sliding correctness): for a box that the previous position does not
\* collide with and the desired position collides with, not as a landing:
\* if the collision is due to the X displacement alone (undoing it removes
\* the collision, undoing Y or Z does not) the result has the previous X and
\* the desired Z; if it is due to the Z displacement alone the result has the
\* desired X and the previous Z; if both single-axis moves collide the result
\* is the previous position.  (The two single-axis moves share the previous
\* height, so they cannot both collide when the previous position does not:
\* line 313 is not reached from a free position.)
C9_Sliding ==
    \A i \in 1..Len(objects) :
        LET cube == objects[i]
            hit(p) == check_cube_collision(cube, p)
            undo_x == <<start[1], asked[2], asked[3]>>
            undo_y == <<asked[1], start[2], asked[3]>>
            undo_z == <<asked[1], asked[2], start[3]>>
            x_only == <<asked[1], start[2], start[3]>>
            z_only == <<start[1], start[2], asked[3]>>
        IN  (/\ cube.kind = "Cube"
             /\ ~hit(start) /\ hit(asked)
             /\ ~landing_on_top(cube, asked))
            => /\ (~hit(undo_x) /\ hit(undo_y) /\ hit(undo_z))
                      => (position[1] = start[1] /\ position[3] = asked[3])
               /\ (~hit(undo_z) /\ hit(undo_y) /\ hit(undo_x))
                      => (position[1] = asked[1] /\ position[3] = start[3])
               /\ (hit(x_only) /\ hit(z_only)) => position = start

\* A walk on the ground that ran into the box's X face while also moving
\* along Z, and was answered with the previous X and the desired Z.
C9_SlidAlongZ ==
    /\ start[2] = player_height /\ asked[2] = player_height
    /\ ~check_cube_collision(objects[2], start)
    /\ check_cube_collision(objects[2], asked)
    /\ ~landing_on_top(objects[2], asked)
    /\ ~check_cube_collision(objects[2], <<start[1], asked[2], asked[3]>>)
    /\ asked[1] # start[1] /\ asked[3] # start[3]
    /\ position[1] = start[1] /\ position[3] = asked[3]

\* C10 (platform landing): after a query whose desired position is inside a
\* box's footprint expanded by the player radius with the feet within 0.1 of
\* the box's top, the result has y = top + 1.7 and the detector holds that
\* box and its top height as the standing object.
C10_PlatformLanding ==
    \A i \in 1..Len(objects) :
        (/\ objects[i].kind = "Cube"
         /\ asked # start
         /\ horizontal_collision(objects[i], asked)
         /\ Abs((asked[2] - player_height) - cube_top(objects[i])) <= landing_band)
        => /\ position[2] = cube_top(objects[i]) + player_height
           /\ engine.det.so = i
           /\ engine.det.sh = cube_top(objects[i])

\* A landing from below the top: the feet were raised to the top and the box
\* was recorded.
C10_LandedFromBelow ==
    /\ asked # start
    /\ horizontal_collision(objects[2], asked)
    /\ asked[2] - player_height < cube_top(objects[2])
    /\ asked[2] - player_height >= cube_top(objects[2]) - landing_band
    /\ position[2] = cube_top(objects[2]) + player_height
    /\ engine.det.so = 2 /\ engine.det.sh = cube_top(objects[2])


\* C19 (cooldown lower bound): jump_cooldown is not negative at the end of
\* any tick.
C19_CooldownLowerBound ==
    engine.jump_cooldown >= 0

\* The decay step has taken a running cooldown part of the way down.
C19_CooldownDecaying ==
    /\ engine.jump_cooldown > 0
    /\ engine.jump_cooldown < jump_cooldown_start - max_dt
    /\ ~engine.jumped

\* C20 (bounded warm-up): once ticks have covered well over a second (a jump
\* started after construction lies 1.5 s or more back), force_on_ground is
\* false.
C20_BoundedWarmUp ==
    (since_jump >= TU + TU \div 2 /\ since_jump < TimeCap)
        => ~engine.force_on_ground

\* The warm-up acted in a tick: it is still in force after the first frame.
C20_WarmUpActive ==
    /\ engine.force_on_ground
    /\ last_dt > 0
    /\ engine.on_ground

-----------------------------------------------------------------------------
\* Properties of the interactive bodies.

\* C11 (immovable under force and impulse): a tracked body that cannot move
\* was not displaced and not given an impulse by the body-body resolution
\* it took part in during the tick; and apply_force, update(dt), the player's
\* push of either part of the tick and both body-body routines, run on it
\* with a box of mass 10 that overlaps it and moves toward it as the other
\* member of the pair (on either side), and with the player walking into it,
\* leave its position, velocity and accumulated force as they are.
C11_ImmovableInvariant ==
    \A i \in interactive_objects :
        ~objects[i].is_movable =>
            LET same(obj) == /\ obj.position = objects[i].position
                             /\ obj.velocity = objects[i].velocity
                             /\ obj.force = objects[i].force
                striker(off) ==
                    [InteractiveCube(Add3(objects[i].position, off), box_size,
                                     10, 2, TRUE)
                       EXCEPT !.velocity = <<-2 * BU, 0, -2 * BU>>]
                player == <<objects[i].position[1] - (9 * PU) \div 10,
                            objects[i].position[2] + (9 * PU) \div 10,
                            objects[i].position[3]>>
            IN  /\ \A part \in {"push", "pass"} :
                       /\ objects[i].resolved[part].shift = <<0, 0, 0>>
                       /\ objects[i].resolved[part].kick = <<0, 0, 0>>
                /\ same(apply_force(objects[i], <<player_push_strength, 0, 0>>))
                /\ same(apply_force(objects[i], <<0, -player_push_strength, 0>>))
                /\ same(object_update(objects[i], max_dt))
                /\ same(player_push(objects[i], player, <<speed, 0, 0>>))
                /\ \A off \in {<<PU, 0, 0>>, <<0, 0, PU>>, <<0, 0, 0>>} :
                       /\ same(push_object(<<objects[i], striker(off)>>, 1,
                                           <<UnitScale, 0, 0>>, player, max_dt)[1])
                       /\ same(handle_object_object_collisions(
                                  <<objects[i], striker(off)>>, 1)[1])
                       /\ same(handle_object_object_collisions(
                                  <<striker(off), objects[i]>>, 1)[2])
                       /\ same(handle_object_object_collision(
                                  <<objects[i], striker(off)>>, 1, 2)[1])
                       /\ same(handle_object_object_collision(
                                  <<striker(off), objects[i]>>, 1, 2)[2])

\* A body that cannot move was found colliding in both parts of a tick, and
\* the routine of the body pass moved its partner away from it.
C11_ImmovableStruck ==
    \E i \in interactive_objects, j \in interactive_objects :
        /\ ~objects[i].is_movable
        /\ objects[j].is_movable
        /\ objects[i].updates > 0
        /\ objects[i].collided = {"push", "pass"}
        /\ objects[i].resolved.push.found
        /\ objects[i].resolved.pass.found
        /\ objects[j].resolved.pass.shift # <<0, 0, 0>>

\* C12 (non-movable bodies never move): no tick changes the position or the
\* velocity of a tracked body that cannot move.
C12_NonMovableNeverMove ==
    [][\A i \in interactive_objects :
          ~objects[i].is_movable =>
              /\ objects'[i].position = objects[i].position
              /\ objects'[i].velocity = objects[i].velocity]_vars

\* The support test has acted on a sphere that cannot move: after the tick
\* it sits on the top of a box, which is not where it was put.
C12_SphereSnapped ==
    \E i \in interactive_objects :
        /\ ~objects[i].is_movable
        /\ objects[i].kind = "InteractiveSphere"
        /\ objects[i].updates = 1
        /\ objects[i].position[2] = cube_top(pedestal) + objects[i].radius
        /\ objects[i].position # sphere_world[i].position

\* C13 (mass-weighted separation): in either part of a tick, a body that a
\* body-body routine found colliding with another body, both movable, with
\* overlap d, was moved by d times the other body's share of the total
\* mass (to 0.002 units).
C13_MassWeightedSeparation ==
    \A i \in interactive_objects, part \in {"push", "pass"} :
        LET r == objects[i].resolved[part]
        IN  r.found /\ r.both_movable =>
                Abs(Norm3(r.shift, NormScale3(r.shift)) * NormScale3(r.shift)
                    - QuoT(r.overlap * r.other_mass, r.mass + r.other_mass))
                  <= PU \div 500

\* The routine of the body pass moved two movable bodies of masses 10 and 30
\* apart.
C13_SeparatedInPass ==
    \E i \in interactive_objects :
        /\ objects[i].resolved.pass.found
        /\ objects[i].resolved.pass.both_movable
        /\ objects[i].resolved.pass.mass = 10
        /\ objects[i].resolved.pass.other_mass = 30
        /\ objects[i].resolved.pass.shift # <<0, 0, 0>>

\* C14 (tick ordering): no body-body collision resolution runs in a tick
\* before the player's static collision check: no tracked body was found
\* colliding by a body-body routine in the part of the tick that precedes
\* check_collision.
C14_StaticBeforeBodies ==
    \A i \in interactive_objects : "push" \notin objects[i].collided

\* Two movable boxes were resolved against each other by the routine called
\* from the player's push, and one of them was displaced by it.
C14_ResolvedInPush ==
    \E i \in interactive_objects :
        /\ objects[i].resolved.push.found
        /\ objects[i].resolved.push.both_movable
        /\ objects[i].resolved.push.shift # <<0, 0, 0>>
        /\ objects[i].updates = 2

\* C15 (one integration per body per tick): at the end of a tick, update(dt)
\* has been called exactly once in that tick for every tracked body that was
\* not put back into the world by the recovery.
C15_OneIntegrationPerTick ==
    last_dt > 0 =>
        \A i \in interactive_objects :
            ~objects[i].recovered => objects[i].updates = 1

\* In one tick the player pushed one movable body and not the other: the
\* first was integrated twice, the second once.
C15_PushedIntegratedTwice ==
    \E i \in interactive_objects, j \in interactive_objects :
        /\ objects[i].is_movable /\ objects[j].is_movable
        /\ objects[i].updates = 2
        /\ objects[j].updates = 1

\* C16 (escaped-body recovery): a tracked body that was below -10 at its
\* turn in the body pass ends the tick at y = 5.0 with velocity (0, 0, 0)
\* and was not integrated in that tick; and no tick changes the number of
\* tracked bodies.
C16_EscapedBodyRecovery ==
    /\ \A i \in interactive_objects :
           objects[i].recovered =>
               /\ objects[i].position[2] = recovery_height
               /\ objects[i].velocity = <<0, 0, 0>>
               /\ objects[i].updates = 0
    /\ \E w \in BodyWorlds :
           /\ Len(objects) = Len(w)
           /\ \A i \in 1..Len(w) : objects[i].kind = w[i].kind

\* The recovery put a body back at y = 5.0 in the last tick.
C16_Recovered ==
    \E i \in interactive_objects :
        /\ objects[i].recovered
        /\ objects[i].position[2] = recovery_height
        /\ objects[i].velocity = <<0, 0, 0>>

\* C17 (degenerate geometry): a player at the centre of a box is moved along
\* +X out of that place; a body pushed by a player at its own horizontal
\* position is pushed along +X; and a movable body that a body-body routine
\* found at the same position as another movable body was displaced by it.
C17_DegenerateGeometry ==
    /\ \A i \in 1..Len(objects) :
           objects[i].kind \in {"Cube", "InteractiveCube"} =>
               resolve_cube_collision(objects[i], objects[i].position,
                                      objects[i].position)
                 = Add3(objects[i].position, <<push_out, 0, 0>>)
    /\ \A i \in interactive_objects :
           /\ push_direction(objects[i], objects[i].position) = <<UnitScale, 0, 0>>
           /\ \A part \in {"push", "pass"} :
                  LET r == objects[i].resolved[part]
                  IN  r.found /\ r.both_movable /\ r.centres = <<0, 0, 0>> =>
                          r.shift # <<0, 0, 0>>

\* The routine of the body pass found two movable bodies at the same
\* position in the last tick.
C17_SamePosition ==
    \E i \in interactive_objects :
        /\ objects[i].resolved.pass.found
        /\ objects[i].resolved.pass.both_movable
        /\ objects[i].resolved.pass.centres = <<0, 0, 0>>
        /\ objects[i].updates = 1

\* C18 (push gating): in a tick in which the player asked for no movement no
\* body was handed a push force by the player; and every push force the
\* player handed to a body has no vertical component and is not larger than
\* player_push_strength times min(1, player_mass / mass), on either axis.
C18_PushGating ==
    \A i \in interactive_objects, part \in {"push", "pass"} :
        /\ asked = start => objects[i].pushed[part] = <<0, 0, 0>>
        /\ objects[i].pushed[part][2] = 0
        /\ \A a \in {1, 3} :
               Abs(objects[i].pushed[part][a]) * objects[i].mass
                 <= player_push_strength * Min(objects[i].mass, player_mass)

\* The push of line 234 handed a force to a movable body that the player
\* walked toward.
C18_Pushed ==
    \E i \in interactive_objects :
        /\ objects[i].is_movable
        /\ objects[i].pushed.push # <<0, 0, 0>>
        /\ asked # start

\* Forces handed to a body: none, a newton along X (which leaves a resting
\* body of mass 10 below the resting speed), the player's push along X and
\* against Z, and a weight of 98 N.
BodyForces ==
    {<<0, 0, 0>>, <<FU, 0, 0>>, <<player_push_strength, 0, 0>>,
     <<0, 0, -player_push_strength>>, <<0, -98 * FU, 0>>}
\* Steps of update(dt): a short frame and the capped one.
BodySteps == {2, max_dt}

\* C21 (dynamic body integration): for a movable body, apply_force(f) adds f
\* to the accumulated force and changes nothing else; update(dt) adds
\* (force / mass) * dt to the velocity, then the drag (-friction * velocity)
\* * dt, then sets the velocity to zero if its magnitude is below 0.01, then
\* adds velocity * dt to the position, and leaves the accumulated force at
\* zero.
C21_BodyIntegration ==
    \A i \in interactive_objects :
        objects[i].is_movable =>
            \A f \in BodyForces, g \in BodyForces, dt \in BodySteps :
                LET obj == objects[i]
                    loaded == apply_force(apply_force(obj, f), g)
                    accelerated == Add3(obj.velocity,
                                        Scale3(loaded.force, dt, obj.mass))
                    dragged == Sub3(accelerated,
                                    Scale3(accelerated, obj.friction * dt, 10 * TU))
                    v == IF NormBelow(dragged, rest_speed) THEN <<0, 0, 0>>
                         ELSE dragged
                    after == object_update(loaded, dt)
                IN  /\ apply_force(obj, f)
                         = [obj EXCEPT !.force = Add3(obj.force, f)]
                    /\ loaded = [obj EXCEPT !.force = Add3(Add3(obj.force, f), g)]
                    /\ after = [obj EXCEPT
                                  !.velocity = v,
                                  !.position = Add3(obj.position, Scale3(v, dt, TU)),
                                  !.force = <<0, 0, 0>>]

\* The first tick of a box of mass 10 and friction 0.2 put into the world at
\* y = 3: integrated once, under its weight alone, it has the velocity
\* (0 - 9.8 * 0.1) * (1 - 0.2 * 0.1) = -0.9604, has moved by that velocity
\* times 0.1 s, and holds no force.
C21_FirstTickOfFall ==
    \E i \in interactive_objects :
        /\ objects[i].is_movable
        /\ objects[i].updates = 1
        /\ objects[i].collided = {}
        /\ objects[i].pushed = unpushed
        /\ objects[i].velocity = <<0, -96040, 0>>
        /\ objects[i].position = <<6 * PU, 3 * PU - 9604, 8 * PU>>
        /\ objects[i].force = <<0, 0, 0>>

\* C22 (static geometry is read-only): no tick changes the position or the
\* dimensions of a world object that is not an interactive body (the ground
\* plane, a static box), and the world's list keeps its length and, place by
\* place, the same objects (a body stays the body it was: kind, size or
\* radius, mass, friction, mobility).
C22_StaticReadOnly ==
    [][/\ Len(objects') = Len(objects)
       /\ \A i \in 1..Len(objects) :
              IF objects[i].kind \in InteractiveKinds
              THEN /\ objects'[i].kind = objects[i].kind
                   /\ objects'[i].mass = objects[i].mass
                   /\ objects'[i].friction = objects[i].friction
                   /\ objects'[i].is_movable = objects[i].is_movable
                   /\ rest_height(objects'[i]) = rest_height(objects[i])
              ELSE objects'[i] = objects[i]]_vars

\* A tick that read the static box twice: the static collision check stopped
\* the player at its side, and the support test found the sphere on its top.
C22_StaticBoxQueried ==
    /\ Len(objects) = 3
    /\ objects[2].kind = "Cube"
    /\ asked # position
    /\ check_cube_collision(objects[2], asked)
    /\ ~check_cube_collision(objects[2], position)
    /\ objects[3].kind = "InteractiveSphere"
    /\ objects[3].updates > 0
    /\ objects[3].position[2] = cube_top(objects[2]) + objects[3].radius

\* C23 (platform hysteresis): a query for a move, made while the detector
\* holds a standing collider P of height h, whose loop over the world finds
\* no supporting collider, returns y = h + 1.7 and keeps P and h when the
\* resolved feet are less than 0.2 from h; otherwise it clears the standing
\* object and returns the resolved position.
C23_PlatformHysteresis ==
    [][LET r == collision_loop(objects, 1, position, asked',
                               [pos |-> asked', so |-> NoObject, sh |-> 0,
                                ogl |-> engine.det.ogl])
       IN  (asked' # position /\ engine.det.so # NoObject /\ r.so = NoObject)
           => IF Abs((r.pos[2] - player_height) - engine.det.sh) < hysteresis_band
              THEN /\ position'[2] = engine.det.sh + player_height
                   /\ position'[1] = r.pos[1] /\ position'[3] = r.pos[3]
                   /\ engine'.det.so = engine.det.so
                   /\ engine'.det.sh = engine.det.sh
              ELSE /\ engine'.det.so = NoObject
                   /\ position' = r.pos]_vars

\* The hysteresis acted: a move to a point outside the box's expanded
\* footprint, feet 0.05 over its top, was answered with the height of
\* standing on the box, and the box is still the standing object.
C23_KeptOnPlatform ==
    /\ asked # start
    /\ ~horizontal_collision(objects[2], asked)
    /\ asked[2] = cube_top(objects[2]) + player_height + Tenth \div 2
    /\ position[2] = cube_top(objects[2]) + player_height
    /\ engine.det.so = 2
    /\ engine.det.sh = cube_top(objects[2])

\* C24 (penetration escape): while the player keeps moving, a tick that
\* starts at a position colliding with a box or prism and asks for a position
\* that collides with it too moves the player horizontally by 0.1, straight
\* away from the shape's centre (along +X from the centre itself), at the
\* height it had; no frame leaves a player who collides with the shape where
\* they are; and a position that collides with the shape is followed, after
\* finitely many ticks, by one that does not.
C24_PenetrationEscape ==
    /\ [][\A i \in 1..Len(objects) :
            (/\ inside_shape(objects[i], position)
             /\ asked' # position
             /\ inside_shape(objects[i], asked'))
            => LET dx == position'[1] - position[1]
                   dz == position'[3] - position[3]
                   rx == QuoT(position[1] - objects[i].position[1], 10)
                   rz == QuoT(position[3] - objects[i].position[3], 10)
               IN  /\ position'[2] = position[2]
                   /\ dx * dx + dz * dz <= (push_out + 100) * (push_out + 100)
                   /\ dx * dx + dz * dz >= (push_out - 100) * (push_out - 100)
                   /\ IF rx = 0 /\ rz = 0
                      THEN dx = push_out /\ dz = 0
                      ELSE /\ dx * rx + dz * rz > 0
                           /\ Abs(dx * rz - dz * rx) <= 100 * (Abs(rx) + Abs(rz))]_vars
    /\ []((inside_shape(objects[2], position) /\ tick_ready)
            => update(engine, objects, position, intent, FALSE, max_dt,
                      Min(since_jump + max_dt, TimeCap)).pos # position)
    /\ (inside_shape(objects[2], position) ~> ~inside_shape(objects[2], position))

\* The player has been pushed out of the hill: the last tick started at a
\* position that collided with it, 0.1 from the position it returned, which
\* does not.
C24_Escaped ==
    /\ objects[2].kind = "Triangle"
    /\ inside_shape(objects[2], start)
    /\ start # position
    /\ asked # position
    /\ ~inside_shape(objects[2], position)
    /\ last_dt > 0

\* ------------------------------------------------------------ the ground plane
\* What the plane, first in the world's order, makes of the desired position.
plane_step(new_position) == collision_step(objects, 1, position, new_position, [pos |-> new_position, so |-> NoObject, sh |-> 0, ogl |-> engine.det.ogl])

\* C25 (ground plane clamp): a query for a move whose desired y is more than
\* 0.05 below the player height 1.7 returns y = 1.7 and leaves the ground
\* plane as the standing object, standing height 0; a desired y below 1.7 by
\* at most 0.05 is left as it is by the plane.
C25_GroundClamp ==
    [][(asked' # position)
       => LET r == check_collision(engine.det, objects, position, asked')
          IN  /\ (player_height - asked'[2] > ground_collision_threshold)
                 => /\ r.pos[2] = player_height
                    /\ r.so = 1 /\ objects[1].kind = "Plane" /\ r.sh = 0
                    /\ engine'.det.so = 1 /\ engine'.det.sh = 0
              /\ (asked'[2] < player_height
                  /\ player_height - asked'[2] <= ground_collision_threshold)
                 => /\ plane_step(asked').pos = asked'
                    /\ plane_step(asked').so = NoObject]_vars

\* A wall taken for the floor: the fall asked for a point more than 0.05
\* below the player height, beside the box; the tick ended where it began,
\* feet above the ground and below the box's top, and the detector holds the
\* box as the standing object with its top as the standing height.
C25_WallTakenForFloor ==
    /\ asked # start
    /\ player_height - asked[2] > ground_collision_threshold
    /\ position = start
    /\ position[2] > player_height
    /\ position[2] - player_height < cube_top(objects[2])
    /\ engine.det.so = 2
    /\ engine.det.sh = cube_top(objects[2])

\* ------------------------------------------------------------ landing on a clamp
\* The engine state of the tick just taken as it was when the move was made
\* (line 227): the jump key was pressed in this tick when it is down now and
\* was up before.
at_the_move == before_collision(engine, objects, position, intent', space_pressed' /\ ~space_pressed, last_dt', since_jump')

\* C26 (landing finalised on upward clamp): a tick that starts no jump, moves
\* with negative vertical velocity more than 0.5 s after the last jump and
\* has its y raised above the desired y by the static collision check ends
\* with jumping = false, on_ground = true and just_landed = true.
C26_LandingOnClamp ==
    [][(/\ ~engine'.jumped
        /\ asked' # position
        /\ at_the_move.velocity[2] < 0
        /\ since_jump' > min_air_time
        /\ check_collision(at_the_move.det, objects, position, asked').pos[2] > asked'[2])
       => (~engine'.jumping /\ engine'.on_ground /\ engine'.just_landed)]_vars

\* A fall ended on the ground and the landing was not reported: the tick
\* fell, more than 0.5 s after any jump, to a desired y under the player
\* height and was clamped to it; it ended with on_ground false, just_landed
\* false and the landing of lines 249-253 not taken.
C26_LandingNotReported ==
    /\ ~engine.jumped
    /\ asked # start
    /\ asked[2] < start[2]
    /\ since_jump > min_air_time
    /\ position = <<asked[1], player_height, asked[3]>>
    /\ position[2] > asked[2]
    /\ engine.velocity[2] = 0
    /\ "collision_landing" \notin engine.events
    /\ ~engine.on_ground
    /\ ~engine.just_landed

\* ------------------------------------------------------------ bodies apart
\* C27 (separation does not depend on closing speed): a movable body that a
\* body-body routine found colliding with another body in either part of the
\* tick was moved by it, whatever the relative velocity along the normal;
\* and the routine of the body pass changes the velocity of neither body of
\* a pair that is not closing.
C27_SeparationRegardless ==
    \A i \in interactive_objects :
        /\ \A part \in {"push", "pass"} :
               LET r == objects[i].resolved[part]
               IN  r.found /\ objects[i].is_movable => r.shift # <<0, 0, 0>>
        /\ \A j \in interactive_objects \ {i} :
               LET d == Sub3(objects[j].position, objects[i].position)
                   along == DotUnit(Sub3(objects[j].velocity, objects[i].velocity),
                                    direction_or_x(d))
                   o == handle_object_object_collision(objects, i, j)
               IN  along >= 0 => /\ o[i].velocity = objects[i].velocity
                                 /\ o[j].velocity = objects[j].velocity

\* Two movable boxes, one inside the other and both at rest, were found
\* within reach of each other by the routine of the body pass, which moved
\* neither and changed no velocity.
C27_LeftOverlapping ==
    \E i \in interactive_objects :
        /\ objects[i].is_movable
        /\ objects[i].resolved.pass.found
        /\ objects[i].resolved.pass.both_movable
        /\ objects[i].resolved.pass.overlap > 0
        /\ objects[i].resolved.pass.shift = <<0, 0, 0>>
        /\ objects[i].resolved.pass.kick = <<0, 0, 0>>
        /\ objects[i].velocity = <<0, 0, 0>>
        /\ "push" \notin objects[i].collided

\* ------------------------------------------------------------ bodies and the ground
\* The weight line 573 hands to a body that nothing carries.
weight(obj) == <<0, -(((gravity * FU) \div VU) * obj.mass), 0>>

\* Lines 510 and 522-567: the body at i is carried, by the ground plane or,
\* a sphere, by a box under it.
resting(objs, i) == \/ Abs(objs[i].position[2] - rest_height(objs[i])) < rest_band
                    \/ objs[i].kind = "InteractiveSphere" /\ supporting_object(objs, i, 1) # NoObject

\* The height of the centre of the body at i when it lies on what carries it.
resting_height(objs, i) == IF Abs(objs[i].position[2] - rest_height(objs[i])) < rest_band THEN rest_height(objs[i]) ELSE cube_top(objs[supporting_object(objs, i, 1)]) + objs[i].radius

\* C28 (body-ground contact): in a tick in which neither the player nor
\* another body acts on it and it is not recovered, a tracked body that is
\* resting (on the ground plane or, a sphere, on a box under it) ends with
\* vertical velocity zero at its resting height, and a movable body that is
\* not resting is integrated under exactly one weight of mass * 9.8.
C28_BodyGroundContact ==
    [][\A i \in interactive_objects :
          (/\ objects'[i].updates = 1
           /\ objects'[i].collided = {}
           /\ ~objects'[i].recovered
           /\ objects'[i].pushed = unpushed)
          => IF resting(objects, i)
             THEN /\ objects'[i].velocity[2] = 0
                  /\ objects'[i].position[2] = resting_height(objects, i)
             ELSE objects[i].is_movable
                  => objects'[i].velocity
                       = integrate_velocity(apply_force(objects[i], weight(objects[i])),
                                            last_dt')]_vars

\* A box came to rest off its resting height: it fell into the band of 0.1
\* around the height at which it lies on the ground, was stopped there by the
\* tick just taken without the player or another body acting on it, and its
\* centre is not at half its height.
C28_RestingOffHeight ==
    \E i \in interactive_objects :
        /\ objects[i].kind = "InteractiveCube"
        /\ objects[i].is_movable
        /\ objects[i].updates = 1
        /\ objects[i].collided = {}
        /\ objects[i].pushed = unpushed
        /\ ~objects[i].recovered
        /\ objects[i].velocity[2] = 0
        /\ Abs(objects[i].position[2] - rest_height(objects[i])) < rest_band
        /\ objects[i].position[2] # rest_height(objects[i])

\* ------------------------------------------------------------ high above the ground
\* A jump from the open ground under uneven frame times: frames of 20 ms,
\* then at most one frame of Odd, then frames of the capped length. No
\* movement key is held, and the jump key is pressed only when no jump was
\* started in the last 2.5 s. events_used tells the three parts of a run
\* apart.
Odd == {6}
frame_part(adv) == IF adv = 2 THEN 0 ELSE IF adv \in Odd THEN 1 ELSE 2

InitDescent ==
    /\ objects = <<ground, platform>>
    /\ position = open_ground
    /\ space_pressed = FALSE
    /\ engine = engine_init
    /\ since_jump = TimeCap
    /\ last_dt = 0
    /\ asked = position
    /\ fall_time = 0
    /\ intent = <<0, 0, 0>>
    /\ events_used = 0
    /\ start = position

\* One pass of the game loop: camera.update with the time since the last
\* frame and the state of the jump key.
Frame(adv, space) ==
    LET jump_requested == space /\ ~space_pressed
        dt == Min(adv, max_dt)
        time_since_jump == Min(since_jump + adv, TimeCap)
        u == update(engine, objects, position, intent, jump_requested, dt, time_since_jump)
    IN  /\ events_used <= frame_part(adv)
        /\ events_used = 1 => adv = max_dt
        /\ space => since_jump = TimeCap
        /\ events_used' = frame_part(adv)
        /\ engine' = u.e
        /\ position' = camera_position(u.e, u.pos)
        /\ space_pressed' = space
        /\ since_jump' = IF u.e.jumped THEN 0 ELSE time_since_jump
        /\ last_dt' = dt
        /\ asked' = u.new_position
        /\ start' = position
        /\ fall_time' = 0
        /\ objects' = u.objects
        /\ UNCHANGED intent

NextDescent == \E adv \in {2, max_dt} \cup Odd, space \in BOOLEAN : Frame(adv, space)

SpecDescent == InitDescent /\ [][NextDescent]_vars

\* The correction as the last word of the tick: a tick that starts more than
\* 0.5 above the default eye height (y > 2.2) and ends with
\* standing_on_platform false ends with on_ground false.
C29_CorrectionWins ==
    [][(/\ position[2] > (22 * PU) \div 10
        /\ ~engine'.standing_on_platform)
       => ~engine'.on_ground]_vars

\* C29 (high-altitude correction): a tick that starts more than 0.5 above the
\* default eye height (y > 2.2) and ends with standing_on_platform false
\* ends with on_ground false, unless the ground-level landing that follows
\* the correction (lines 278-286) ended a jump in that tick.
C29_HighAltitudeCorrection ==
    [][(/\ position[2] > (22 * PU) \div 10
        /\ ~engine'.standing_on_platform
        /\ "ground_landing" \notin engine'.events)
       => ~engine'.on_ground]_vars

\* High up and in the air: a tick of the descent of a jump, more than 0.5 s
\* after it began, started above y = 2.2 off any platform and ended above
\* the ground with on_ground false.
C29_AirborneHighUp ==
    /\ start[2] > (22 * PU) \div 10
    /\ asked[2] < start[2]
    /\ position[2] > default_eye_height + landing_band
    /\ engine.jumping
    /\ since_jump > min_air_time
    /\ ~engine.standing_on_platform
    /\ "ground_landing" \notin engine.events
    /\ ~engine.on_ground

\* ------------------------------------------------------------ the tick of a jump
\* The jump force at the end of the tick that starts a jump: velocity.y
\* equals 5.0 at the end of every tick in which a jump is initiated.
C30_JumpForceKept ==
    [][engine'.jumped => engine'.velocity[2] = jump_force]_vars

\* C30 (jump-tick velocity): at the end of the tick in which a jump is
\* initiated, velocity.y equals the jump force less the gravity of that
\* tick, 5.0 - 9.8 * dt, or 0; it is 0 only when the position returned is
\* not at the height asked for or the ground-level landing ended the jump in
\* that tick, and it is 5.0 - 9.8 * dt whenever the position returned is the
\* position asked for and the ground-level landing did not act.
C30_JumpTickVelocity ==
    [][engine'.jumped
       => /\ engine'.velocity[2] \in {0, jump_force - (gravity * last_dt') \div TU}
          /\ (position' = asked' /\ "ground_landing" \notin engine'.events)
             => engine'.velocity[2] = jump_force - (gravity * last_dt') \div TU
          /\ engine'.velocity[2] = 0
             => (position'[2] # asked'[2] \/ "ground_landing" \in engine'.events)]_vars

\* A jump was started by a frame of 0.1 s on the open ground: the tick ended
\* 0.402 above the ground with velocity.y = 5.0 - 0.98 = 4.02, jumping and
\* not on the ground.
C30_JumpTick ==
    /\ engine.jumped
    /\ last_dt = max_dt
    /\ start[2] = player_height
    /\ position[2] = asked[2]
    /\ position[2] = player_height + (402 * PU) \div 1000
    /\ engine.velocity[2] = (402 * VU) \div 100
    /\ engine.jumping
    /\ ~engine.on_ground

\* ------------------------------------------------------------ the player's flags
\* C31 (jumping and grounded exclude each other): in the initial state and at
\* the end of every tick of PhysicsEngine.update, jumping and on_ground are
\* never both true.
C31_JumpingExcludesGround == ~(engine.jumping /\ engine.on_ground)

\* A jump has been ended by the ground-level landing of lines 278-283: the
\* tick started with jumping set and ends grounded.
C31_JumpEndedOnGround ==
    /\ "ground_landing" \in engine.events
    /\ engine.on_ground
    /\ ~engine.jumping
    /\ start[2] > player_height

\* C32 (grounded implies no vertical motion): at the end of every tick, if
\* on_ground is true then velocity.y is exactly 0.
C32_GroundedAtRest == engine.on_ground => engine.velocity[2] = 0

\* The player came down: the tick before had a downward velocity, and this
\* one ends on the ground.
C32_CameToRest ==
    /\ engine.on_ground
    /\ engine.velocity[2] = 0
    /\ position[2] < start[2]
    /\ since_jump > min_air_time

\* C34 (vertical velocity range): in every reachable state the player's
\* velocity.y lies in [-terminal_velocity, jump_force] = [-20.0, 5.0].
C34_VerticalVelocityRange ==
    /\ engine.velocity[2] >= -(20 * VU)
    /\ engine.velocity[2] <= 5 * VU

\* A fall has reached the terminal velocity and goes on.
C34_AtTerminalVelocity ==
    /\ engine.velocity[2] = -terminal_velocity
    /\ ~engine.on_ground
    /\ "gravity" \in engine.events

C33_NoMidAirRejump ==
    /\ [](\A adv \in Advances :
            LET e5 == before_jump(engine, objects, position,
                                  Min(since_jump + adv, TimeCap))
                e6 == jump_initiation(e5, TRUE)
            IN  /\ e6.jumped => (~e5.jumping /\ e5.on_ground)
                /\ e6.velocity[2] # e5.velocity[2] => (~e5.jumping /\ e5.on_ground)
                /\ (e5.jumping \/ ~e5.on_ground)
                      => (e6.velocity = e5.velocity /\ ~e6.jumped))
    /\ [][(since_jump' < since_jump \/ engine'.jumped)
             => /\ space_pressed' /\ ~space_pressed
                /\ since_jump' = 0
                /\ engine'.jumped
                /\ \E adv \in Advances :
                      LET e5 == before_jump(engine, objects, position,
                                            Min(since_jump + adv, TimeCap))
                      IN  /\ Min(adv, max_dt) = last_dt'
                          /\ ~e5.jumping /\ e5.on_ground]_vars

\* The jump key was pressed during a jump, after the cooldown had run out:
\* the request was refused and the jump went on.
C33_RequestRefusedInTheAir ==
    /\ "not_on_ground" \in engine.events
    /\ engine.jumping
    /\ ~engine.jumped
    /\ since_jump > 0
    /\ engine.velocity[2] # jump_force
    /\ engine.velocity[2] # 0

\* ------------------------------------------------------------ the ground
\* C36 (the player never sinks below the ground): in a world whose first
\* collider is the ground plane at height 0 and whose boxes and prisms have
\* their tops at or above 0, a player who starts with y >= 1.65 has y >= 1.65
\* after every tick (player height less the 0.05 ground threshold).
C36_NeverBelowGround ==
    /\ objects[1].kind = "Plane"
    /\ objects[1].position[2] = 0
    /\ position[2] >= (165 * PU) \div 100

\* A fall would have taken the player below the ground: the position asked
\* for is under 1.65 and the position returned is the eye height on the plane.
C36_CaughtByGround ==
    /\ asked[2] < (165 * PU) \div 100
    /\ start[2] > player_height
    /\ position[2] = player_height
    /\ engine.det.so = 1
    /\ objects[1].kind = "Plane"

\* ------------------------------------------------------------ platform edges
\* C37 (support requires footprint containment): after any check_collision
\* call, if a box or a prism is recorded as the standing object, the position
\* returned lies horizontally within that shape's footprint expanded by the
\* player radius; so a player who keeps walking away from a platform leaves
\* its support and comes down.
C37_SupportWithinFootprint ==
    LET so == engine.det.so
    IN  (so # NoObject /\ asked # start)
           => /\ objects[so].kind = "Cube"
                    => horizontal_collision(objects[so], position)
              /\ objects[so].kind = "Triangle"
                    => triangle_footprint(objects[so], position)

\* The player has walked off the platform and is a unit beyond its expanded
\* footprint, at the height of its top, with the platform still recorded as
\* the standing object by the query of this tick.
C37_HeldUpBesidePlatform ==
    /\ engine.det.so = 2
    /\ objects[2] = platform
    /\ asked # start
    /\ asked[2] < position[2]
    /\ position[1] > cube_max(platform)[1] + PU
    /\ position[2] = cube_top(platform) + player_height
    /\ engine.standing_on_platform
    /\ ~engine.on_ground
    /\ engine.velocity[2] = 0

\* C38 (walking on a platform): when the player stands on top of a box (feet
\* at its top, horizontally inside its expanded footprint) and the position
\* asked for is another point at the same height inside that footprint,
\* check_collision returns the X and Z asked for and keeps the box as the
\* standing object.  Stated for every tick of the game loop on the platform.
C38_WalkAcrossTop ==
    [][(/\ objects[2] = platform
        /\ position[2] = cube_top(platform) + player_height
        /\ horizontal_collision(platform, position)
        /\ asked' # position
        /\ asked'[2] = position[2]
        /\ horizontal_collision(platform, asked'))
       => /\ position'[1] = asked'[1]
          /\ position'[3] = asked'[3]
          /\ engine'.det.so = 2]_vars

\* A step across the top was asked for and another one was returned: the
\* player is 0.1 further from the platform's centre, not where the velocity
\* led, still inside the footprint and on the top.
C38_StepReplacedByPush ==
    /\ objects[2] = platform
    /\ start[2] = cube_top(platform) + player_height
    /\ horizontal_collision(platform, start)
    /\ asked[2] = start[2]
    /\ horizontal_collision(platform, asked)
    /\ asked[1] > start[1] + Tenth
    /\ position[1] = start[1] + Tenth
    /\ position[2] = start[2]
    /\ engine.det.so = 2

\* ------------------------------------------------------------ dropped bodies
\* Bodies let go above the ground plane, 8 units from the player and out of
\* reach: the light box and the medium box of the world from 1 to 5 units
\* up, the world's small sphere where the world puts it (centre at 1.0,
\* radius 0.8), and the same sphere from 3 and 5 units up.
DropWorlds ==
    {<<ground, InteractiveCube(<<12 * PU, h * PU, 8 * PU>>, box_size, 10, 2, TRUE)>> :
        h \in 1..5}
    \cup {<<ground, InteractiveCube(<<12 * PU, h * PU, 8 * PU>>, box_size, 25, 3, TRUE)>> :
            h \in 1..5}
    \cup {<<ground, InteractiveSphere(<<12 * PU, h * PU, 8 * PU>>, (8 * PU) \div 10, 5, 1, TRUE)>> :
            h \in {1, 3, 5}}

InitSettle ==
    /\ objects \in DropWorlds
    /\ position = open_ground
    /\ space_pressed = FALSE
    /\ engine = engine_init
    /\ since_jump = TimeCap
    /\ last_dt = 0
    /\ asked = position
    /\ fall_time = 0
    /\ intent = <<0, 0, 0>>
    /\ events_used = 0
    /\ start = position

\* Frames of the capped length (a frame rate of 10 per second or less); the
\* player stands still.
NextSettle == Tick(max_dt, <<0, 0, 0>>, FALSE)

\* The body at i lies on the ground: no vertical velocity, its centre within
\* the band of line 510 around its resting height.
settled(objs, i) ==
    /\ objs[i].velocity[2] = 0
    /\ Abs(objs[i].position[2] - rest_height(objs[i])) < rest_band

\* The game loop calls update once per frame for as long as it runs (main.py
\* 70-105): weak fairness of the frame, WF_vars(NextSettle), written out for
\* the frames that move a body: a run does not stop while a body is not at
\* rest.
frames_keep_falling ==
    \/ []<>(\A i \in interactive_objects : settled(objects, i))
    \/ []<><<NextSettle>>_vars

SpecSettle == InitSettle /\ [][NextSettle]_vars /\ frames_keep_falling

\* C39 (a dropped body settles): a movable tracked body let go above the
\* ground plane with nothing under it comes to rest on the ground and stays
\* there; it does not go through the ground and round through the recovery
\* below the world.  The part a finite run settles: at no tick is the centre
\* of a dropped body below the plane, and no dropped body has been put back
\* by the recovery of lines 497-504.
C39_NeverThroughGround ==
    \A i \in interactive_objects :
        /\ objects[i].position[2] >= objects[1].position[2]
        /\ ~objects[i].recovered

\* The other part of C39, for the runs in which the frames keep coming: in
\* the end every dropped body is at rest on the ground (vertical velocity 0,
\* y within the resting band of its shape) for good.
C39_DroppedBodySettles ==
    <>[](\A i \in interactive_objects : settled(objects, i))

\* The box has gone through the ground and has just been put back at y = 5
\* with no velocity: the state of the box let go from 5 units up.
C39_BackWhereItStarted ==
    /\ objects[2].kind = "InteractiveCube"
    /\ objects[2].recovered
    /\ objects[2].position = <<12 * PU, recovery_height, 8 * PU>>
    /\ objects[2].velocity = <<0, 0, 0>>
    /\ objects[2].force = <<0, 0, 0>>

\* ------------------------------------------------------------ the impulse
\* Velocities two bodies can have when the routine is entered, in units per
\* second: at rest, pushed along X, sliding across, falling.
BodyVelocities ==
    {<<0, 0, 0>>, <<(1234 * BU) \div 1000, 0, 0>>, <<3 * BU, 0, -(BU \div 2)>>,
     <<-(4 * BU) \div 10, 0, 0>>, <<(77 * BU) \div 100, -(98 * BU) \div 100, BU \div 3>>}

\* C40 (the impulse conserves momentum): when _handle_object_object_collision
\* applies its impulse to two movable bodies that are closing, the total
\* momentum mass1 * velocity1 + mass2 * velocity2 is the same before and
\* after, and afterwards the relative velocity along the contact normal is
\* -0.8 times the value before, no longer closing.  The routine is applied
\* to every pair of tracked bodies of every reachable state, where they are
\* and with each pair of the velocities above; equal means equal to within
\* the rounding of the fixed-point velocities (0.0002 units per second for
\* each body).
C40_ImpulseConservesMomentum ==
    \A i \in interactive_objects : \A j \in interactive_objects \ {i} :
        \A va \in BodyVelocities \cup {objects[i].velocity} :
        \A vb \in BodyVelocities \cup {objects[j].velocity} :
        LET objs == [objects EXCEPT ![i].velocity = va, ![j].velocity = vb]
            a == objs[i]
            b == objs[j]
            n == direction_or_x(Sub3(b.position, a.position))
            along == DotUnit(Sub3(b.velocity, a.velocity), n)
            o == handle_object_object_collision(objs, i, j)
            after == DotUnit(Sub3(o[j].velocity, o[i].velocity), n)
        IN  (/\ centre_distance(a, b) < body_reach(a) + body_reach(b)
             /\ along < 0
             /\ a.is_movable /\ b.is_movable)
            => /\ \A k \in 1..3 :
                     Abs((a.mass * o[i].velocity[k] + b.mass * o[j].velocity[k])
                         - (a.mass * a.velocity[k] + b.mass * b.velocity[k]))
                       <= 20 * (a.mass + b.mass)
               /\ Abs(after + QuoT(8 * along, 10)) <= 40
               /\ after >= 0

\* The routine of the body pass has changed the velocities of two movable
\* boxes of different mass in the last tick.
C40_ImpulseApplied ==
    \E i \in interactive_objects :
        /\ objects[i].resolved.pass.found
        /\ objects[i].resolved.pass.both_movable
        /\ objects[i].resolved.pass.kick # <<0, 0, 0>>
        /\ objects[i].resolved.pass.mass # objects[i].resolved.pass.other_mass

====
